---- MODULE Spec2Model ----
(***************************************************************************)
(* Model of the component analyzer (class ComponentAnalyzer, src/src/cli.ts *)
(* lines 325-1642) and of the LLM manager it calls (src/src/cache.ts).      *)
(*                                                                          *)
(*  Spec        the batch orchestrator: analyzeComponents,                  *)
(*              processBatchWithDependencies, interruptibleDelay and the    *)
(*              SIGINT/SIGTERM handler.                                     *)
(*  TraceSpec   the implementation tracer: traceComponentImplementation.     *)
(*  ExtractSpec the export graph resolver: extractComponentInfoFromIndex.    *)
(*  ContextSpec the dependency context builder: buildDependencyContext.      *)
(*  AnalyzeSpec the whole run: analyze, with the batch orchestrator inside;  *)
(*              AnalyzeLiveSpec adds the fairness of the program's steps.    *)
(*  ConfigSpec  createLLMConfigFromEnv (src/src/index.ts).                   *)
(*  CompareSpec compareReports (src/src/index.ts).                           *)
(*  BatchAnalysisSpec  batchAnalysis (src/src/index.ts).                     *)
(*  ExtractLiveSpec    the export graph resolver with the fairness of its    *)
(*              steps.                                                       *)
(***************************************************************************)
EXTENDS Integers, Sequences, FiniteSets, TLC

(***************************************************************************)
(* Bounds of the model.                                                     *)
(***************************************************************************)
\* Candidate lists of every length 0..MaxSmallCount are analysed.
MaxSmallCount == 4
\* Candidate lists of up to maxComponents + MaxExcess entries are analysed.
MaxExcess == 1
\* The analyzer call may throw for the candidates at positions 1..MaxThrowPos.
MaxThrowPos == 2
\* The re-export chains given to the tracer have up to MaxChain files.
MaxChain == 12
\* The kind of each of the first MaxVaried links of a chain is chosen freely.
MaxVaried == 2
\* The module behind the entry's wildcard has up to MaxSubStatements statements.
MaxSubStatements == 2
\* A report given to compareReports has up to MaxReportComponents components.
MaxReportComponents == 2
\* A run of analyze finds up to MaxAnalyzeCount candidates.
MaxAnalyzeCount == 3
\* The component of a wide import graph imports up to MaxWide files.
MaxWide == 6
\* A file of a small import graph imports up to MaxDepList files.
MaxDepList == 2
\* Calls of extractComponentInfoFromIndex are nested up to MaxCallDepth deep.
MaxCallDepth == 4
\* batchAnalysis is given up to MaxRepositories repositories.
MaxRepositories == 4

VARIABLES
    \* ---- analyzeComponents (cli.ts 504-604) ----
    componentFiles,     \* length of the argument list; candidates are 1..componentFiles
    pc,                 \* position of analyzeComponents
    componentsToAnalyze,\* length of componentFiles.slice(0, maxComponents)
    batchSize,          \* const batchSize
    i,                  \* loop variable i (0-based offset of the current batch)
    components,         \* const components: ComponentInfo[] (candidate positions)
    isAborted,          \* let isAborted
    abortController,    \* let abortController: 0 is null, k the controller of batch k
    abortedSignals,     \* controllers on which abort() has been called
    listeners,          \* handleInterrupt registrations on process (SIGINT, SIGTERM)
    exitCode,           \* -1 while the process runs, else the code given to process.exit
    delaysAwaited,      \* number of interruptibleDelay calls made
    tasks,              \* state of the async callback of batch.map for each candidate
    outOfOrder          \* history: in the batch started last, a callback fulfilled
                        \* while a callback at a lower position was still pending

batchVars == <<componentFiles, pc, componentsToAnalyze, batchSize, i, components,
               isAborted, abortController, abortedSignals, listeners, exitCode,
               delaysAwaited, tasks, outOfOrder>>

VARIABLES
    \* ---- the Source Index ----
    files,              \* allFiles: path -> parsed content of the file
    \* ---- traceComponentImplementation (cli.ts 672-882) ----
    componentName,      \* argument componentName
    filePath,           \* argument filePath
    traceName,          \* currentComponentName of the pending call of traceImplementation
    tracePath,          \* currentFilePath of the pending call
    depth,              \* depth of the pending call
    visited,            \* const visited = new Set<string>()
    dependencies,       \* const dependencies = new Set<FileInfo>()
    tracePc,            \* "idle", "tracing" (a call of traceImplementation is pending), "done"
    traceReturn,        \* value returned by traceComponentImplementation: its file, or Null
    scanned,            \* the calls that traversed a syntax tree, in order: [name, path]
    \* ---- extractComponentInfoFromIndex (cli.ts 926-1083) ----
    indexPath,          \* argument indexPath
    extractPc,          \* "off", "ready", "extracting", "done"
    callStack,          \* the nested calls of extractComponentInfoFromIndex, outermost first
    componentInfoMap    \* the map returned

traceVars == <<componentName, filePath, traceName, tracePath, depth, visited,
               dependencies, tracePc, traceReturn, scanned>>

extractVars == <<indexPath, extractPc, callStack, componentInfoMap>>

VARIABLES
    \* ---- buildDependencyContext (cli.ts 1496-1597) ----
    component,          \* argument component (its path)
    allComponentFiles,  \* argument allComponentFiles: path -> [code, dependencies, imports]
    contextPc,          \* "off", "ready", "done"
    relatedFiles,       \* relatedFiles of the value returned (limitedFiles)
    dependencyPaths,    \* dependencyPaths of the value returned
    dependencyDepths,   \* dependencyDepths of the value returned
    dependencyTree,     \* the nodes pushed under dependencyTree, in order
    \* ---- analyze (cli.ts 343-399) ----
    analyzePc,          \* position of analyze
    projectDir,         \* let projectDir: "null", or "cloned" once cloneRepository returned
    tempDirs,           \* the cloned directories that exist on disk
    \* ---- createLLMConfigFromEnv, compareReports (index.ts 177-261) ----
    processEnv,         \* process.env: variable name -> string
    overrides,          \* argument overrides of createLLMConfigFromEnv
    llmConfig,          \* the LLMConfig returned
    report1,            \* argument report1 of compareReports
    report2,            \* argument report2
    comparison,         \* the value compareReports returned
    utilPc,             \* position of the function of index.ts that is run
    \* ---- batchAnalysis (index.ts 46-98) ----
    repositories,       \* argument repositories: a sequence of [name]; "" is no name
    maxConcurrency,     \* options.maxConcurrency
    repoI,              \* loop variable i (0-based offset of the current batch)
    repoTasks,          \* state of the async callback of batch.map for each repository
    outputPaths,        \* config.outputPath of each callback created so far
    outputFiles,        \* the report files on disk: path -> repository whose report it holds
    results             \* const results: AnalysisReport[] (repository positions)

contextVars == <<component, allComponentFiles, contextPc, relatedFiles, dependencyPaths,
                 dependencyDepths, dependencyTree>>

analyzeVars == <<analyzePc, projectDir, tempDirs>>

repoVars == <<repositories, maxConcurrency, repoI, repoTasks, outputPaths, outputFiles,
              results>>

utilVars == <<processEnv, overrides, llmConfig, report1, report2, comparison, utilPc,
              repoVars>>

vars == <<batchVars, files, traceVars, extractVars, contextVars, analyzeVars, utilVars>>

\* batchAnalysis is not called
RepoIdle ==
    /\ repositories = <<>> /\ maxConcurrency = 0 /\ repoI = 0 /\ repoTasks = <<>>
    /\ outputPaths = <<>> /\ outputFiles = <<>> /\ results = <<>>

(***************************************************************************)
(* Helpers                                                                 *)
(***************************************************************************)
Min(a, b) == IF a <= b THEN a ELSE b

\* Array.prototype.filter(result => result !== null) over a batch, in batch order.
RECURSIVE ValidResults(_, _, _)
ValidResults(t, from, to) ==
    IF from > to THEN <<>>
    ELSE (IF t[from] = "fulfilled" THEN <<from>> ELSE <<>>)
         \o ValidResults(t, from + 1, to)

\* mutant: the results of a batch are put in front of the list
push_Front(arr, items) == items \o arr

\* components.push(...validResults)
push(arr, items) == arr \o items

(***************************************************************************)
(* Program constants and pure functions                                    *)
(***************************************************************************)
\* const maxComponents = 100
maxComponents == 100

\* mutant: the list is not sliced
SliceLen_NoSlice(n) == n

\* componentFiles.slice(0, maxComponents), as a length
SliceLen(n) == Min(n, maxComponents)

\* mutant: a larger batch for large libraries
calculateOptimalBatchSize_Six(totalComponents) ==
    IF totalComponents <= 10 THEN 2
    ELSE IF totalComponents <= 30 THEN 3
    ELSE IF totalComponents <= 60 THEN 4
    ELSE 6

\* mutant: the first threshold is exclusive
calculateOptimalBatchSize_Lt(totalComponents) ==
    IF totalComponents < 10 THEN 2
    ELSE IF totalComponents <= 30 THEN 3
    ELSE IF totalComponents <= 60 THEN 4
    ELSE 5

\* calculateOptimalBatchSize
calculateOptimalBatchSize(totalComponents) ==
    IF totalComponents <= 10 THEN 2
    ELSE IF totalComponents <= 30 THEN 3
    ELSE IF totalComponents <= 60 THEN 4
    ELSE 5

\* mutant: chat lets the client's error through, which may be an AbortError
AnalyzerErrorNames_Unwrapped == {"Error", "AbortError"}

\* LLMManager.chat wraps whatever the client throws: throw new Error(`LLM请求失败: ...`),
\* so the name of an error leaving analyzeComponent is always "Error".
AnalyzerErrorNames == {"Error"}

\* mutant: the callback rethrows every error
ShouldRethrow_Always(signalAborted, errorName) == TRUE

\* catch clause of the batch.map callback: `if (signal.aborted || error.name === 'AbortError') throw error`
ShouldRethrow(signalAborted, errorName) ==
    signalAborted \/ errorName = "AbortError"

\* catch clause of the for loop: `if (error.name === 'AbortError' || isAborted) break`
ShouldBreak(errorName, aborted) ==
    errorName = "AbortError" \/ aborted

\* candidate lengths given to analyzeComponents
\* mutant: the delay is awaited after every batch
ShouldDelay_Always(k, size, total, aborted) == ~aborted

\* `if (i + batchSize < componentsToAnalyze.length && !isAborted)`
ShouldDelay(k, size, total, aborted) == k + size < total /\ ~aborted

CandidateCounts ==
    (0..MaxSmallCount) \cup {7, 10, 11, 30, 31, 45, 60, 61}
        \cup (maxComponents..(maxComponents + MaxExcess))

\* positions of the batch that starts at offset k: componentsToAnalyze.slice(k, k + batchSize)
BatchPositions(k) == (k + 1)..Min(k + batchSize, componentsToAnalyze)
CurrentBatch == BatchPositions(i)
\* Math.floor(i / batchSize) + 1 for the batch that holds candidate p
BatchNumberOf(p) == ((p - 1) \div batchSize) + 1

Settled == {"fulfilled", "null", "rejected"}

(***************************************************************************)
(* Init: analyzeComponents has been called with a list of componentFiles    *)
(* candidates and has not run yet.                                          *)
(***************************************************************************)
BatchInit(counts) ==
    /\ componentFiles \in counts
    /\ pc = "init"
    /\ componentsToAnalyze = 0
    /\ batchSize = 0
    /\ i = 0
    /\ components = <<>>
    /\ isAborted = FALSE
    /\ abortController = 0
    /\ abortedSignals = {}
    /\ listeners = 0
    /\ exitCode = -1
    /\ delaysAwaited = 0
    /\ tasks = [p \in 1..componentFiles |-> "none"]
    /\ outOfOrder = FALSE

(***************************************************************************)
(* One iteration head of the for loop, up to the await of                  *)
(* processBatchWithDependencies: a new AbortController, and batch.map runs  *)
(* every callback up to its first await (buildDependencyContext).  The      *)
(* signal of the controller created here is not aborted, so the callback's  *)
(* first test `if (signal.aborted) throw` does not fire.                    *)
(* Called with the offset k of the batch; the loop condition holds.         *)
(***************************************************************************)
StartBatch(k, size, total, t) ==
    /\ i' = k
    /\ abortController' = (k \div size) + 1
    /\ tasks' = [p \in DOMAIN t |->
                    IF p \in (k + 1)..Min(k + size, total) THEN "created" ELSE t[p]]
    /\ outOfOrder' = FALSE
    /\ pc' = "batch"

\* mutant: the function returns and the listeners stay registered
Return_NoFinally ==
    /\ pc' = "returned"
    /\ listeners' = 2

\* The function returns (or breaks out of the loop and returns): finally runs.
Return ==
    /\ pc' = "returned"
    /\ listeners' = 0

\* analyzeComponents from its entry to its first await
AnalyzeComponents ==
    /\ UNCHANGED <<files, traceVars, extractVars, contextVars, analyzeVars, utilVars>>
    /\ pc = "init"
    /\ exitCode = -1
    /\ IF componentFiles = 0
       THEN \* process.on twice, `return []`, then finally
            /\ Return
            /\ UNCHANGED <<componentFiles, componentsToAnalyze, batchSize, i, components,
                           isAborted, abortController, abortedSignals, exitCode,
                           delaysAwaited, tasks, outOfOrder>>
       ELSE /\ listeners' = 2
            /\ componentsToAnalyze' = SliceLen(componentFiles)
            /\ batchSize' = calculateOptimalBatchSize(SliceLen(componentFiles))
            /\ StartBatch(0, calculateOptimalBatchSize(SliceLen(componentFiles)),
                          SliceLen(componentFiles), tasks)
            /\ UNCHANGED <<componentFiles, components, isAborted, abortedSignals,
                           exitCode, delaysAwaited>>

\* buildDependencyContext has resolved: the callback calls llmManager.analyzeComponent
CallAnalyzer(p) ==
    /\ UNCHANGED <<files, traceVars, extractVars, contextVars, analyzeVars, utilVars>>
    /\ exitCode = -1
    /\ tasks[p] = "created"
    /\ tasks' = [tasks EXCEPT ![p] = "inflight"]
    /\ UNCHANGED <<componentFiles, pc, componentsToAnalyze, batchSize, i, components,
                   isAborted, abortController, abortedSignals, listeners, exitCode,
                   delaysAwaited, outOfOrder>>

\* analyzeComponent returns normally: the callback returns componentInfo
AnalyzerReturns(p) ==
    /\ UNCHANGED <<files, traceVars, extractVars, contextVars, analyzeVars, utilVars>>
    /\ exitCode = -1
    /\ tasks[p] = "inflight"
    /\ tasks' = [tasks EXCEPT ![p] = "fulfilled"]
    /\ outOfOrder' = (outOfOrder \/ (pc = "batch" /\ p \in CurrentBatch
                                        /\ \E q \in CurrentBatch :
                                              q < p /\ tasks[q] \in {"created", "inflight"}))
    /\ UNCHANGED <<componentFiles, pc, componentsToAnalyze, batchSize, i, components,
                   isAborted, abortController, abortedSignals, listeners, exitCode,
                   delaysAwaited>>

\* analyzeComponent throws: the catch clause of the callback returns null, or
\* rethrows; a rethrow rejects Promise.all(batchPromises) at once, and when the
\* batch is the one being awaited the catch clause of the loop runs.
AnalyzerThrows(p) ==
    /\ UNCHANGED <<files, traceVars, extractVars, contextVars, analyzeVars, utilVars>>
    /\ exitCode = -1
    /\ tasks[p] = "inflight"
    /\ p <= MaxThrowPos
    /\ \E errorName \in AnalyzerErrorNames :
          IF ~ShouldRethrow(BatchNumberOf(p) \in abortedSignals, errorName)
          THEN /\ tasks' = [tasks EXCEPT ![p] = "null"]
               /\ UNCHANGED <<pc, i, abortController, listeners, outOfOrder>>
          ELSE IF ~(pc = "batch" /\ p \in CurrentBatch)
          THEN /\ tasks' = [tasks EXCEPT ![p] = "rejected"]
               /\ UNCHANGED <<pc, i, abortController, listeners, outOfOrder>>
          ELSE IF ShouldBreak(errorName, isAborted) \/ ~(i + batchSize < componentsToAnalyze)
          THEN /\ tasks' = [tasks EXCEPT ![p] = "rejected"]
               /\ Return
               /\ UNCHANGED <<i, abortController, outOfOrder>>
          ELSE /\ StartBatch(i + batchSize, batchSize, componentsToAnalyze,
                             [tasks EXCEPT ![p] = "rejected"])
               /\ UNCHANGED listeners
    /\ UNCHANGED <<componentFiles, componentsToAnalyze, batchSize, components,
                   isAborted, abortedSignals, exitCode, delaysAwaited>>

\* Promise.all(batchPromises) resolves: the results are appended, then the delay
\* is awaited or the loop ends.
BatchResolves ==
    /\ UNCHANGED <<files, traceVars, extractVars, contextVars, analyzeVars, utilVars>>
    /\ exitCode = -1
    /\ pc = "batch"
    /\ \A p \in CurrentBatch : tasks[p] \in {"fulfilled", "null"}
    /\ components' = push(components,
                           ValidResults(tasks, i + 1, Min(i + batchSize, componentsToAnalyze)))
    /\ IF ShouldDelay(i, batchSize, componentsToAnalyze, isAborted)
       THEN /\ pc' = "delay"
            /\ delaysAwaited' = delaysAwaited + 1
            /\ UNCHANGED listeners
       ELSE \* i += batchSize: the loop condition fails, or `if (isAborted) break`
            /\ Return
            /\ UNCHANGED delaysAwaited
    /\ UNCHANGED <<componentFiles, componentsToAnalyze, batchSize, i, isAborted,
                   abortController, abortedSignals, exitCode, tasks, outOfOrder>>

\* the 800 ms timer of interruptibleDelay fires: the next iteration starts
DelayElapses ==
    /\ UNCHANGED <<files, traceVars, extractVars, contextVars, analyzeVars, utilVars>>
    /\ exitCode = -1
    /\ pc = "delay"
    /\ IF isAborted
       THEN /\ Return
            /\ UNCHANGED <<i, abortController, tasks, outOfOrder>>
       ELSE /\ StartBatch(i + batchSize, batchSize, componentsToAnalyze, tasks)
            /\ UNCHANGED listeners
    /\ UNCHANGED <<componentFiles, componentsToAnalyze, batchSize, components, isAborted,
                   abortedSignals, exitCode, delaysAwaited>>

\* mutant: the handler only aborts the current controller
HandleInterrupt_AbortOnly ==
    /\ UNCHANGED <<files, traceVars, extractVars, contextVars, analyzeVars, utilVars>>
    /\ exitCode = -1
    /\ listeners > 0
    /\ pc \in {"batch", "delay"}
    /\ abortController # 0 /\ abortController \notin abortedSignals
    /\ abortedSignals' = abortedSignals \cup {abortController}
    /\ UNCHANGED <<componentFiles, pc, componentsToAnalyze, batchSize, i, components,
                   isAborted, exitCode, abortController, listeners, delaysAwaited, tasks, outOfOrder>>

\* SIGINT or SIGTERM is delivered while analyzeComponents is suspended in an await:
\* handleInterrupt runs.
HandleInterrupt ==
    /\ UNCHANGED <<files, traceVars, extractVars, contextVars, analyzeVars, utilVars>>
    /\ exitCode = -1
    /\ listeners > 0
    /\ pc \in {"batch", "delay"}
    /\ abortController # 0 /\ ~isAborted
    /\ isAborted' = TRUE
    /\ abortedSignals' = abortedSignals \cup {abortController}
    /\ exitCode' = 130
    /\ UNCHANGED <<componentFiles, pc, componentsToAnalyze, batchSize, i, components,
                   abortController, listeners, delaysAwaited, tasks, outOfOrder>>

BatchNext ==
    \/ AnalyzeComponents
    \/ \E p \in DOMAIN tasks : CallAnalyzer(p)
    \/ \E p \in DOMAIN tasks : AnalyzerReturns(p)
    \/ \E p \in DOMAIN tasks : AnalyzerThrows(p)
    \/ BatchResolves
    \/ DelayElapses
    \/ HandleInterrupt

(***************************************************************************)
(* The Source Index and the content of a file.                             *)
(*                                                                         *)
(* A path is <<stem, extension>>: stem stands for the absolute path        *)
(* without extension, and an import specifier is modelled by the stem that *)
(* path.resolve(path.dirname(indexPath), specifier) gives.                 *)
(* The content of a file is what Babel's parse and traverse show of it:    *)
(*   parses    parse() does not throw                                      *)
(*   decls     identifiers of the function and class declarations and of   *)
(*             the variable declarators initialised with a function, an    *)
(*             arrow function or a component call                          *)
(*   stmts     its export statements in source order, one entry per        *)
(*             specifier                                                   *)
(*   typeNames names N for which /export type N =/ or /export interface N/ *)
(*             matches the text                                            *)
(***************************************************************************)
Null == <<>>

\* export { local as exported } from 'source'
Named(e, l, s) == [kind |-> "named", exported |-> e, local |-> l, source |-> s]
\* export { local as exported }
LocalList(e, l) == [kind |-> "local", exported |-> e, local |-> l, source |-> 0]
\* export * from 'source'
ExportAll(s) == [kind |-> "all", exported |-> "", local |-> "", source |-> s]
\* export default Name, export default function Name() {}
ExportDefault(n) == [kind |-> "default", exported |-> "default", local |-> n, source |-> 0]
\* export function Name() {}, export class Name {}, export const Name = () => ...
Inline(n) == [kind |-> "inline", exported |-> n, local |-> n, source |-> 0]

Content(d, st) == [parses |-> TRUE, decls |-> d, stmts |-> st, typeNames |-> {}]
Unparsable == [parses |-> FALSE, decls |-> {}, stmts |-> <<>>, typeNames |-> {}]

\* const possibleExtensions = [...]
possibleExtensions ==
    <<".ts", ".tsx", ".js", ".jsx", "/index.ts", "/index.tsx", "/index.js", "/index.jsx">>

\* resolveFilePath: the first extension for which the Source Index has the path
resolveFilePath(specifier, allFiles) ==
    LET hits == {k \in DOMAIN possibleExtensions :
                    <<specifier, possibleExtensions[k]>> \in allFiles}
    IN  IF hits = {} THEN Null
        ELSE <<specifier, possibleExtensions[CHOOSE k \in hits : \A l \in hits : k <= l]>>

(***************************************************************************)
(* traceComponentImplementation                                            *)
(***************************************************************************)
\* `if (depth > 10)`
maxTraceDepth == 10

\* mutant: the cap is one hop lower
DepthExceeded_Ge(d) == d >= maxTraceDepth

\* mutant: no cap
DepthExceeded_Never(d) == FALSE

DepthExceeded(d) == d > maxTraceDepth

\* mutant: a file met again is returned as the result
RevisitReturn_CurrentFile(currentFilePath) == currentFilePath

\* `if (visited.has(currentFilePath)) return null`
RevisitReturn(currentFilePath) == Null

NoTarget == [name |-> "", path |-> Null]

\* state of the visitors before the traversal: the declaration visitors
\* (FunctionDeclaration, VariableDeclarator, ClassDeclaration) only set
\* foundImplementation, so their order among the export visitors is immaterial
ScanStart(content, name) ==
    [foundImplementation |-> name \in content.decls,
     nextTraceTarget |-> NoTarget,
     defaultAsTarget |-> Null,
     added |-> {}]

\* mutant: a `default as` specifier is followed like any named re-export
VisitExport_FollowDefault(stmt, name, allFiles, acc) ==
    IF stmt.kind = "named" /\ stmt.exported = name
    THEN LET targetPath == resolveFilePath(stmt.source, allFiles)
         IN  IF targetPath = Null THEN acc
             ELSE [acc EXCEPT !.nextTraceTarget = [name |-> stmt.local, path |-> targetPath]]
    ELSE acc

\* the export visitors of the traversal, applied to one statement:
\* ExportNamedDeclaration with a source, ExportAllDeclaration,
\* ExportDefaultDeclaration, and the declaration inside an inline export
VisitExport(stmt, name, allFiles, acc) ==
    IF stmt.kind = "named" /\ stmt.exported = name
    THEN LET targetPath == resolveFilePath(stmt.source, allFiles)
         IN  IF targetPath = Null THEN acc
             ELSE IF stmt.local = "default"
             THEN [acc EXCEPT !.added = @ \cup {targetPath},
                              !.defaultAsTarget = targetPath,
                              !.foundImplementation = TRUE]
             ELSE [acc EXCEPT !.nextTraceTarget = [name |-> stmt.local, path |-> targetPath]]
    ELSE IF stmt.kind = "all"
    THEN LET targetPath == resolveFilePath(stmt.source, allFiles)
         IN  IF targetPath = Null THEN acc
             ELSE [acc EXCEPT !.nextTraceTarget = [name |-> name, path |-> targetPath]]
    ELSE IF stmt.kind \in {"default", "inline"} /\ stmt.local = name
    THEN [acc EXCEPT !.foundImplementation = TRUE]
    ELSE acc

\* traverse(ast, {...}): the statements are visited in source order
RECURSIVE Traverse(_, _, _, _, _)
Traverse(stmts, k, name, allFiles, acc) ==
    IF k > Len(stmts) THEN acc
    ELSE Traverse(stmts, k + 1, name, allFiles, VisitExport(stmts[k], name, allFiles, acc))

ScanFile(content, name, allFiles) ==
    Traverse(content.stmts, 1, name, allFiles, ScanStart(content, name))

\* traceImplementation returns: traceComponentImplementation returns the file
\* (with Array.from(dependencies)) or null
TraceReturns(file) ==
    /\ tracePc' = "done"
    /\ traceReturn' = file
    /\ UNCHANGED <<traceName, tracePath, depth>>

\* traceComponentImplementation is called: the sets are created and
\* traceImplementation(componentName, filePath) is called with depth 0
TraceComponentImplementation ==
    /\ UNCHANGED <<batchVars, files, extractVars, contextVars, analyzeVars, utilVars>>
    /\ tracePc = "idle"
    /\ tracePc' = "tracing"
    /\ traceName' = componentName
    /\ tracePath' = filePath
    /\ depth' = 0
    /\ visited' = {}
    /\ dependencies' = {}
    /\ UNCHANGED <<componentName, filePath, traceReturn, scanned>>

\* one call of traceImplementation(traceName, tracePath, depth), up to its return
\* or to the recursive call it returns the value of
TraceImplementation ==
    /\ UNCHANGED <<batchVars, files, extractVars, contextVars, analyzeVars, utilVars>>
    /\ tracePc = "tracing"
    /\ UNCHANGED <<componentName, filePath>>
    /\ IF DepthExceeded(depth)
       THEN /\ TraceReturns(Null)
            /\ UNCHANGED <<visited, dependencies, scanned>>
       ELSE IF tracePath \in visited
       THEN /\ TraceReturns(RevisitReturn(tracePath))
            /\ UNCHANGED <<visited, dependencies, scanned>>
       ELSE /\ visited' = visited \cup {tracePath}
            /\ IF tracePath \notin DOMAIN files
               THEN /\ TraceReturns(Null)
                    /\ UNCHANGED <<dependencies, scanned>>
               ELSE IF ~files[tracePath].parses
               THEN \* parse throws: `return currentFile`
                    /\ dependencies' = dependencies \cup {tracePath}
                    /\ TraceReturns(tracePath)
                    /\ UNCHANGED scanned
               ELSE LET r == ScanFile(files[tracePath], traceName, DOMAIN files)
                    IN  /\ dependencies' = dependencies \cup {tracePath} \cup r.added
                        /\ scanned' = Append(scanned, [name |-> traceName, path |-> tracePath])
                        /\ IF r.foundImplementation
                           THEN TraceReturns(IF r.defaultAsTarget # Null
                                             THEN r.defaultAsTarget ELSE tracePath)
                           ELSE IF r.nextTraceTarget # NoTarget
                           THEN /\ traceName' = r.nextTraceTarget.name
                                /\ tracePath' = r.nextTraceTarget.path
                                /\ depth' = depth + 1
                                /\ UNCHANGED <<tracePc, traceReturn>>
                           ELSE TraceReturns(tracePath)

TraceNext ==
    \/ TraceComponentImplementation
    \/ TraceImplementation

(***************************************************************************)
(* Source trees given to the tracer.                                        *)
(***************************************************************************)
\* extension of the file with stem k
ExtOf(k) == possibleExtensions[((k - 1) % Len(possibleExtensions)) + 1]
PathOf(k) == <<k, ExtOf(k)>>

OtherName(n) == IF n = "Foo" THEN "Bar" ELSE "Foo"

LinkKinds == {"named", "renamed", "all"}
Terminals == {"declares", "empty", "declaresOther", "defaultAs", "defaultAsDeclared",
              "cycle", "cycleAll", "unresolved", "unparsable"}

\* kind of the link from file k to file k + 1: chosen for the first MaxVaried
\* links, a plain named re-export for the rest
LinkKind(kinds, k) == IF k <= MaxVaried THEN kinds[k] ELSE "named"

\* name under which file k of the chain exports the component
RECURSIVE NameAt(_, _)
NameAt(kinds, k) ==
    IF k = 1 THEN "Foo"
    ELSE IF LinkKind(kinds, k - 1) = "renamed" THEN OtherName(NameAt(kinds, k - 1))
    ELSE NameAt(kinds, k - 1)

\* a chain 1 -> 2 -> ... -> len of re-exports, ended by a file of kind term;
\* file len + 1 is the module a closing `default as` names
ChainFiles(len, kinds, term) ==
    [p \in {PathOf(k) : k \in 1..(len + 1)} |->
        LET k == p[1]
            n == NameAt(kinds, k)
        IN  IF k < len
            THEN Content({}, <<CASE LinkKind(kinds, k) = "named" -> Named(n, n, k + 1)
                                 [] LinkKind(kinds, k) = "renamed" -> Named(n, OtherName(n), k + 1)
                                 [] OTHER -> ExportAll(k + 1)>>)
            ELSE IF k = len + 1
            THEN Content(IF term = "defaultAsDeclared" THEN {NameAt(kinds, len)} ELSE {}, <<>>)
            ELSE CASE term = "declares" -> Content({n}, <<>>)
                   [] term = "empty" -> Content({}, <<>>)
                   [] term = "declaresOther" -> Content({OtherName(n)}, <<>>)
                   [] term \in {"defaultAs", "defaultAsDeclared"} -> Content({}, <<Named(n, "default", len + 1)>>)
                   [] term = "cycle" -> Content({}, <<Named(n, "Foo", 1)>>)
                   [] term = "cycleAll" -> Content({}, <<ExportAll(1)>>)
                   [] term = "unresolved" -> Content({}, <<Named(n, n, len + 2)>>)
                   [] OTHER -> Unparsable]

ChainTrees ==
    {ChainFiles(len, kinds, term) :
        len \in 1..MaxChain, kinds \in [1..MaxVaried -> LinkKinds], term \in Terminals}

\* statement lists of at most two statements about Foo, with the modules in
\* targets as sources
OneStatement(targets) ==
    {Named("Foo", l, t) : l \in {"Foo", "default"}, t \in targets}
        \cup {ExportAll(t) : t \in targets}
StatementLists(targets) ==
    {<<>>} \cup {<<s>> : s \in OneStatement(targets)}
        \cup {<<s1, s2>> : s1 \in OneStatement(targets), s2 \in {ExportAll(t) : t \in targets}}
        \cup {<<s1, s2>> : s1 \in {ExportAll(t) : t \in targets},
                           s2 \in {Named("Foo", l, t) : l \in {"Foo", "default"}, t \in targets}}

\* three files: the first with any statement list over the modules 2, 3 and the
\* missing module 4, the others with at most one statement
SmallTrees ==
    {[p \in {PathOf(1), PathOf(2), PathOf(3)} |->
        IF p[1] = 1 THEN Content(d[1], s1)
        ELSE IF p[1] = 2 THEN Content(d[2], s2)
        ELSE Content(d[3], s3)] :
        d \in [1..3 -> {{}, {"Foo"}}],
        s1 \in StatementLists({2, 3, 4}),
        s2 \in {st \in StatementLists({1, 3}) : Len(st) <= 1},
        s3 \in {st \in StatementLists({1, 2}) : Len(st) <= 1}}

TraceIdle ==
    /\ componentName = "" /\ filePath = Null
    /\ traceName = "" /\ tracePath = Null /\ depth = 0
    /\ visited = {} /\ dependencies = {}
    /\ tracePc = "off" /\ traceReturn = Null /\ scanned = <<>>

\* traceComponentImplementation("Foo", <a file of the tree, or a path outside it>)
TraceInit ==
    /\ files \in ChainTrees \cup SmallTrees
    /\ componentName = "Foo"
    /\ filePath \in {PathOf(1), <<0, ".ts">>}
    /\ traceName = "" /\ tracePath = Null /\ depth = 0
    /\ visited = {} /\ dependencies = {}
    /\ tracePc = "idle" /\ traceReturn = Null /\ scanned = <<>>

(***************************************************************************)
(* extractComponentInfoFromIndex                                           *)
(***************************************************************************)
\* the names that occur in the source trees
Names ==
    {"Foo", "Bar", "Button", "Modal", "ButtonConfig", "useButton", "default", "ButtonUtils",
     "I18nUtils", "FormHelper", "StateManager", "AuthService", "S3Service", "ColorEnum",
     "ButtonTypes", "AppConstants", "Prototype", "ThemeProvider", "ApiClientProvider",
     "DataProvider"}

\* the characters of the names and of the words of the patterns
Spelling ==
    [Foo |-> <<"F", "o", "o">>, Bar |-> <<"B", "a", "r">>,
     Button |-> <<"B", "u", "t", "t", "o", "n">>, Modal |-> <<"M", "o", "d", "a", "l">>,
     ButtonConfig |-> <<"B", "u", "t", "t", "o", "n", "C", "o", "n", "f", "i", "g">>,
     useButton |-> <<"u", "s", "e", "B", "u", "t", "t", "o", "n">>,
     default |-> <<"d", "e", "f", "a", "u", "l", "t">>,
     ButtonUtils |-> <<"B", "u", "t", "t", "o", "n", "U", "t", "i", "l", "s">>,
     I18nUtils |-> <<"I", "1", "8", "n", "U", "t", "i", "l", "s">>,
     FormHelper |-> <<"F", "o", "r", "m", "H", "e", "l", "p", "e", "r">>,
     StateManager |-> <<"S", "t", "a", "t", "e", "M", "a", "n", "a", "g", "e", "r">>,
     AuthService |-> <<"A", "u", "t", "h", "S", "e", "r", "v", "i", "c", "e">>,
     S3Service |-> <<"S", "3", "S", "e", "r", "v", "i", "c", "e">>,
     ColorEnum |-> <<"C", "o", "l", "o", "r", "E", "n", "u", "m">>,
     ButtonTypes |-> <<"B", "u", "t", "t", "o", "n", "T", "y", "p", "e", "s">>,
     AppConstants |-> <<"A", "p", "p", "C", "o", "n", "s", "t", "a", "n", "t", "s">>,
     Prototype |-> <<"P", "r", "o", "t", "o", "t", "y", "p", "e">>,
     ThemeProvider |-> <<"T", "h", "e", "m", "e", "P", "r", "o", "v", "i", "d", "e", "r">>,
     ApiClientProvider |-> <<"A", "p", "i", "C", "l", "i", "e", "n", "t", "P", "r", "o", "v", "i", "d", "e", "r">>,
     DataProvider |-> <<"D", "a", "t", "a", "P", "r", "o", "v", "i", "d", "e", "r">>,
     create |-> <<"c", "r", "e", "a", "t", "e">>, make |-> <<"m", "a", "k", "e">>,
     build |-> <<"b", "u", "i", "l", "d">>, generate |-> <<"g", "e", "n", "e", "r", "a", "t", "e">>,
     get |-> <<"g", "e", "t">>, set |-> <<"s", "e", "t">>, is |-> <<"i", "s">>,
     has |-> <<"h", "a", "s">>, can |-> <<"c", "a", "n">>,
     should |-> <<"s", "h", "o", "u", "l", "d">>, will |-> <<"w", "i", "l", "l">>,
     use |-> <<"u", "s", "e">>, format |-> <<"f", "o", "r", "m", "a", "t">>,
     parse |-> <<"p", "a", "r", "s", "e">>, validate |-> <<"v", "a", "l", "i", "d", "a", "t", "e">>,
     transform |-> <<"t", "r", "a", "n", "s", "f", "o", "r", "m">>,
     convert |-> <<"c", "o", "n", "v", "e", "r", "t">>, Utils |-> <<"U", "t", "i", "l", "s">>,
     Util |-> <<"U", "t", "i", "l">>, Helper |-> <<"H", "e", "l", "p", "e", "r">>,
     Manager |-> <<"M", "a", "n", "a", "g", "e", "r">>,
     Service |-> <<"S", "e", "r", "v", "i", "c", "e">>, Config |-> <<"C", "o", "n", "f", "i", "g">>,
     Constants |-> <<"C", "o", "n", "s", "t", "a", "n", "t", "s">>,
     Constant |-> <<"C", "o", "n", "s", "t", "a", "n", "t">>, Types |-> <<"T", "y", "p", "e", "s">>,
     Type |-> <<"T", "y", "p", "e">>, Enum |-> <<"E", "n", "u", "m">>,
     Provider |-> <<"P", "r", "o", "v", "i", "d", "e", "r">>, Api |-> <<"A", "p", "i">>,
     Http |-> <<"H", "t", "t", "p">>, Data |-> <<"D", "a", "t", "a">>,
     ABCDEFGHIJKLMNOPQRSTUVWXYZ |-> <<"A", "B", "C", "D", "E", "F", "G", "H", "I", "J", "K", "L", "M", "N", "O", "P", "Q", "R", "S", "T", "U", "V", "W", "X", "Y", "Z">>,
     abcdefghijklmnopqrstuvwxyz |-> <<"a", "b", "c", "d", "e", "f", "g", "h", "i", "j", "k", "l", "m", "n", "o", "p", "q", "r", "s", "t", "u", "v", "w", "x", "y", "z">>]

UpperCase == Spelling.ABCDEFGHIJKLMNOPQRSTUVWXYZ
LowerCase == Spelling.abcdefghijklmnopqrstuvwxyz

\* the character as a pattern with the flag i compares it
IgnoreCase(c) ==
    IF \E k \in DOMAIN UpperCase : UpperCase[k] = c
    THEN LowerCase[CHOOSE k \in DOMAIN UpperCase : UpperCase[k] = c]
    ELSE c

\* /^word/ matches the characters
StartsWith(chars, word) ==
    /\ Len(chars) >= Len(word)
    /\ \A k \in DOMAIN word : chars[k] = word[k]

\* /word$/ matches the characters, /word$/i when ignoreCase
EndsWith(chars, word, ignoreCase) ==
    /\ Len(chars) >= Len(word)
    /\ \A k \in DOMAIN word :
          LET c == chars[Len(chars) - Len(word) + k]
          IN  IF ignoreCase THEN IgnoreCase(c) = IgnoreCase(word[k]) ELSE c = word[k]

\* isPascalCase: /^[A-Z][a-zA-Z0-9]*$/
isPascalCase(name) ==
    LET chars == Spelling[name]
    IN  /\ Len(chars) >= 1
        /\ \E k \in DOMAIN UpperCase : UpperCase[k] = chars[1]
        /\ \A j \in 2..Len(chars) :
              \/ \E k \in DOMAIN UpperCase : chars[j] \in {UpperCase[k], LowerCase[k]}
              \/ chars[j] \in {"0", "1", "2", "3", "4", "5", "6", "7", "8", "9"}

\* the utilPatterns of isLikelyComponent:
\*   /^(create|make|...|use)[A-Z]/ and /^(format|parse|...|convert)[A-Z]/
\*   /^[a-z]+Utils?$/i, /^[a-z]+Helper$/i, /^[a-z]+Manager$/i, /^[a-z]+Service$/i
\*   /Config$/, /Constants?$/i, /Types?$/i, /Enum$/i
MatchesUtilPattern(name) ==
    LET chars == Spelling[name]
        verbs == {"create", "make", "build", "generate", "get", "set", "is", "has", "can",
                  "should", "will", "use", "format", "parse", "validate", "transform",
                  "convert"}
        lettersThen(word) ==
            /\ EndsWith(chars, Spelling[word], TRUE)
            /\ Len(chars) > Len(Spelling[word])
            /\ \A j \in 1..(Len(chars) - Len(Spelling[word])) :
                  \E k \in DOMAIN LowerCase : IgnoreCase(chars[j]) = LowerCase[k]
    IN  \/ \E verb \in verbs :
              /\ StartsWith(chars, Spelling[verb])
              /\ Len(chars) > Len(Spelling[verb])
              /\ \E k \in DOMAIN UpperCase : UpperCase[k] = chars[Len(Spelling[verb]) + 1]
        \/ \E word \in {"Utils", "Util", "Helper", "Manager", "Service"} : lettersThen(word)
        \/ EndsWith(chars, Spelling.Config, FALSE)
        \/ \E word \in {"Constants", "Constant", "Types", "Type", "Enum"} :
              EndsWith(chars, Spelling[word], TRUE)

\* /Provider$/ and one of the utilProviders: /^Api.*Provider$/, /^Http.*Provider$/,
\* /^Data.*Provider$/, /^Service.*Provider$/
MatchesUtilProvider(name) ==
    LET chars == Spelling[name]
    IN  /\ EndsWith(chars, Spelling.Provider, FALSE)
        /\ \E word \in {"Api", "Http", "Data", "Service"} :
              /\ StartsWith(chars, Spelling[word])
              /\ Len(chars) >= Len(Spelling[word]) + Len(Spelling.Provider)

\* /export\s*\{[^}]*\bname\b[^}]*\}/ or /export\s+default\s+name/ matches the text
hasComponentExport(name, content) ==
    \E k \in DOMAIN content.stmts :
        LET stmt == content.stmts[k]
        IN  \/ stmt.kind \in {"named", "local"} /\ name \in {stmt.exported, stmt.local}
            \/ stmt.kind = "default" /\ stmt.local = name

isLikelyComponent(name, content) ==
    IF name \in content.typeNames /\ ~hasComponentExport(name, content) THEN FALSE
    ELSE IF MatchesUtilPattern(name) THEN FALSE
    ELSE IF MatchesUtilProvider(name) THEN FALSE
    ELSE TRUE

\* Map.prototype.set
MapSet(m, key, value) ==
    [n \in DOMAIN m \cup {key} |-> IF n = key THEN value ELSE m[n]]

\* `for (const [componentName, filePath] of reExportedMap.entries()) componentToFileMap.set(...)`
MapMerge(m, reExportedMap) ==
    [n \in DOMAIN m \cup DOMAIN reExportedMap |->
        IF n \in DOMAIN reExportedMap THEN reExportedMap[n] ELSE m[n]]

EmptyMap == [n \in {} |-> Null]

\* mutant: a named re-export is recorded whether or not its module resolves
VisitIndexExport_Unresolved(stmt, path, allFiles, m) ==
    IF stmt.kind = "named"
    THEN IF isPascalCase(stmt.exported)
         THEN MapSet(m, stmt.exported, resolveFilePath(stmt.source, allFiles)) ELSE m
    ELSE IF stmt.kind = "local"
    THEN IF isPascalCase(stmt.exported) THEN MapSet(m, stmt.exported, path) ELSE m
    ELSE IF stmt.kind = "default"
    THEN IF isPascalCase(stmt.local) THEN MapSet(m, stmt.local, path) ELSE m
    ELSE m

\* the ExportNamedDeclaration and ExportDefaultDeclaration visitors applied to
\* one statement; an inline export has no specifier and sets nothing
VisitIndexExport(stmt, path, allFiles, m) ==
    IF stmt.kind = "named"
    THEN LET sourceFilePath == resolveFilePath(stmt.source, allFiles)
         IN  IF isPascalCase(stmt.exported) /\ sourceFilePath # Null
             THEN MapSet(m, stmt.exported, sourceFilePath) ELSE m
    ELSE IF stmt.kind = "local"
    THEN IF isPascalCase(stmt.exported) THEN MapSet(m, stmt.exported, path) ELSE m
    ELSE IF stmt.kind = "default"
    THEN IF isPascalCase(stmt.local) THEN MapSet(m, stmt.local, path) ELSE m
    ELSE m

RECURSIVE TraverseIndex(_, _, _, _, _)
TraverseIndex(stmts, k, path, allFiles, m) ==
    IF k > Len(stmts) THEN m
    ELSE TraverseIndex(stmts, k + 1, path, allFiles,
                       VisitIndexExport(stmts[k], path, allFiles, m))

\* mutant: a name that is already in the map keeps its path
MergeReExports_KeepExisting(m, reExportedMap) == MapMerge(reExportedMap, m)

\* merge of one entry of reExportedResults
MergeReExports(m, reExportedMap) == MapMerge(m, reExportedMap)

\* A call of extractComponentInfoFromIndex on the file at path, after the
\* visitors of its traversal set their entries.  The maps of its wildcard
\* re-exports are merged after the traversal, in source order
\* (exportStarPromises, Promise.all): next is the statement from which the next
\* wildcard re-export is looked for.
Call(path, fs) ==
    [path |-> path, next |-> 1,
     componentToFileMap |-> TraverseIndex(fs[path].stmts, 1, path, DOMAIN fs, EmptyMap)]

\* the first wildcard re-export among the statements k.., or Len(stmts) + 1
RECURSIVE NextExportAll(_, _)
NextExportAll(stmts, k) ==
    IF k > Len(stmts) \/ stmts[k].kind = "all" THEN k
    ELSE NextExportAll(stmts, k + 1)

\* the filteredMap of a call
filteredMap(call, fs) ==
    LET kept == {n \in DOMAIN call.componentToFileMap :
                    isPascalCase(n) /\ isLikelyComponent(n, fs[call.path])}
    IN  [n \in kept |-> call.componentToFileMap[n]]

\* extractComponentInfoFromIndex(content of indexPath, indexPath, allFiles)
ExtractComponentInfoFromIndex ==
    /\ UNCHANGED <<batchVars, files, traceVars, contextVars, analyzeVars, utilVars>>
    /\ extractPc = "ready"
    /\ extractPc' = "extracting"
    /\ callStack' = <<Call(indexPath, files)>>
    /\ UNCHANGED <<indexPath, componentInfoMap>>

\* the innermost call reaches its next wildcard re-export:
\* extractComponentsFromReExportWithPaths returns an empty map for a module that
\* is not in the Source Index, and calls extractComponentInfoFromIndex on the
\* module's file otherwise
ExtractComponentsFromReExportWithPaths ==
    /\ UNCHANGED <<batchVars, files, traceVars, contextVars, analyzeVars, utilVars>>
    /\ extractPc = "extracting"
    /\ LET top == callStack[Len(callStack)]
           stmts == files[top.path].stmts
           k == NextExportAll(stmts, top.next)
       IN  /\ k <= Len(stmts)
           /\ LET sourceFilePath == resolveFilePath(stmts[k].source, DOMAIN files)
                  moved == [callStack EXCEPT ![Len(callStack)].next = k + 1]
              IN  IF sourceFilePath = Null
                  THEN callStack' = moved
                  ELSE /\ Len(callStack) < MaxCallDepth
                       /\ callStack' = Append(moved, Call(sourceFilePath, files))
    /\ UNCHANGED <<indexPath, extractPc, componentInfoMap>>

\* the innermost call has no wildcard re-export left: it returns its filteredMap,
\* which the calling call merges into its componentToFileMap
ReturnFilteredMap ==
    /\ UNCHANGED <<batchVars, files, traceVars, contextVars, analyzeVars, utilVars>>
    /\ extractPc = "extracting"
    /\ LET top == callStack[Len(callStack)]
           stmts == files[top.path].stmts
       IN  /\ NextExportAll(stmts, top.next) > Len(stmts)
           /\ IF Len(callStack) = 1
              THEN /\ componentInfoMap' = filteredMap(top, files)
                   /\ extractPc' = "done"
                   /\ callStack' = <<>>
              ELSE /\ callStack' =
                        [SubSeq(callStack, 1, Len(callStack) - 1)
                            EXCEPT ![Len(callStack) - 1].componentToFileMap =
                                MergeReExports(@, filteredMap(top, files))]
                   /\ UNCHANGED <<extractPc, componentInfoMap>>
    /\ UNCHANGED indexPath

ExtractNext ==
    \/ ExtractComponentInfoFromIndex
    \/ ExtractComponentsFromReExportWithPaths
    \/ ReturnFilteredMap

(***************************************************************************)
(* Source trees given to the resolver: an entry (1), a module sub (2) and  *)
(* a module nested (3); module 4 is not in the Source Index.  Every file   *)
(* parses (no name is exported twice).  In the trees of ExtractTrees a     *)
(* wildcard re-export names a module with a higher number; in those of     *)
(* CyclicTrees a module re-exports itself, or two modules each other.      *)
(***************************************************************************)
ExportedNamesOf(stmts) ==
    {stmts[k].exported : k \in {l \in DOMAIN stmts : stmts[l].kind # "all"}}
NoDuplicateExport(stmts) ==
    Cardinality(ExportedNamesOf(stmts))
        = Cardinality({l \in DOMAIN stmts : stmts[l].kind # "all"})

RECURSIVE ListsUpTo(_, _)
ListsUpTo(S, n) ==
    IF n = 0 THEN {<<>>}
    ELSE LET shorter == ListsUpTo(S, n - 1)
         IN  shorter \cup {Append(st, s) : st \in shorter, s \in S}
UpTo(S, n) == {st \in ListsUpTo(S, n) : NoDuplicateExport(st)}

EntryStatements ==
    {ExportAll(2), ExportAll(3), Named("Button", "Button", 3), Named("Modal", "default", 3),
     LocalList("Modal", "Modal"), ExportDefault("Button"), Inline("Foo"),
     ExportAll(4), Named("Bar", "Bar", 4)}
SubStatements ==
    {Named("Button", "Button", t) : t \in {3, 4}}
        \cup {Named("Modal", "default", t) : t \in {3, 4}}
        \cup {LocalList(n, n) : n \in {"Modal", "ButtonConfig", "useButton"}}
        \cup {Inline(n) : n \in {"Button", "ButtonConfig"}}
        \cup {ExportDefault("Button"), ExportAll(3), ExportAll(4)}
NestedStatements ==
    {LocalList("Button", "Button"), LocalList("Modal", "Modal"), Inline("Button")}

\* the trees in which sub has at most maxSub export statements
ExtractTrees(maxSub) ==
    {[p \in {PathOf(1), PathOf(2), PathOf(3)} |->
        IF p[1] = 1 THEN [Content({}, s1) EXCEPT !.typeNames = ty]
        ELSE IF p[1] = 2 THEN Content({}, s2)
        ELSE Content({}, s3)] :
        ty \in {{}, {"Button"}},
        s1 \in {st \in UpTo(EntryStatements, 2) : st # <<>>},
        s2 \in UpTo(SubStatements, maxSub),
        s3 \in UpTo(NestedStatements, 1)}

\* the entry and sub re-export each other (backTo = 1) or sub re-exports itself
\* (backTo = 2), or the entry re-exports itself (no sub); each file may also
\* export a component of its own
CyclicTrees ==
    {[p \in {PathOf(1), PathOf(2)} |->
        IF p[1] = 1 THEN Content({}, own1 \o <<ExportAll(first)>>)
        ELSE Content({}, own2 \o <<ExportAll(backTo)>>)] :
        first \in {1, 2}, backTo \in {1, 2},
        own1 \in {<<>>, <<LocalList("Button", "Button")>>},
        own2 \in {<<>>, <<LocalList("Modal", "Modal")>>}}

\* every name exported by the entry itself, or by sub behind the entry's wildcard
NameTrees ==
    {[p \in {PathOf(1), PathOf(2)} |->
        IF p[1] = 1 THEN Content({}, IF behind THEN <<ExportAll(2)>> ELSE <<LocalList(n, n)>>)
        ELSE Content({}, IF behind THEN <<LocalList(n, n)>> ELSE <<>>)] :
        n \in Names, behind \in BOOLEAN}

ExtractIdle ==
    /\ indexPath = Null /\ extractPc = "off" /\ callStack = <<>>
    /\ componentInfoMap = EmptyMap

ExtractInit(trees) ==
    /\ files \in trees \cup CyclicTrees \cup NameTrees
    /\ indexPath = PathOf(1)
    /\ extractPc = "ready"
    /\ callStack = <<>>
    /\ componentInfoMap = EmptyMap

(***************************************************************************)
(* buildDependencyContext                                                  *)
(*                                                                         *)
(* A path is a number here.  A candidate of allComponentFiles is           *)
(*   code          the length of its code                                  *)
(*   dependencies  the paths of its pre-collected dependencies             *)
(*   imports       the resolved paths of its relative import statements,   *)
(*                 in source order                                         *)
(* A snippet is [kind, path, depth, prefix, marker]: the first `prefix`    *)
(* characters of the code, followed by the truncation marker when `marker`.*)
(* The last entry of relatedFiles may be [kind |-> "omitted", count].      *)
(***************************************************************************)
maxDepth == 3

\* mutant: a file of exactly 8000 characters still gives a snippet
IncludedInSnippets_Le(codeLength) == codeLength <= 8000

\* `depComponent.code.length < 8000`
IncludedInSnippets(codeLength) == codeLength < 8000

\* `code.length > 3000 ? code.substring(0, 3000) + marker : code`
truncatedCode(codeLength) ==
    IF codeLength > 3000
    THEN [prefix |-> 3000, marker |-> TRUE]
    ELSE [prefix |-> codeLength, marker |-> FALSE]

Snippet(depPath, depDepth, codeLength) ==
    [kind |-> "snippet", path |-> depPath, depth |-> depDepth,
     prefix |-> truncatedCode(codeLength).prefix,
     marker |-> truncatedCode(codeLength).marker]

\* CodeParser.analyzeDependencies: the imports that are files of allFiles
analyzeDependencies(imports, allFiles) ==
    SelectSeq(imports, LAMBDA q : q \in allFiles)

\* the dependency list of a call of collectDependencies
DependencyList(candidate, all) ==
    IF Len(candidate.dependencies) > 0
    THEN candidate.dependencies
    ELSE analyzeDependencies(candidate.imports, DOMAIN all)

\* dependencies.slice(0, 5)
maxDependenciesPerLevel == 5

\* mutant: a dependency is recorded with the depth of its parent
ChildDepth_Same(currentDepth) == currentDepth

ChildDepth(currentDepth) == currentDepth + 1

EmptyContext ==
    [relatedFiles |-> <<>>, dependencyPaths |-> <<>>, dependencyDepths |-> <<>>,
     processedPaths |-> {}, dependencyTree |-> <<>>]

\* the body of the for loop up to the recursive call
RecordDependency(depPath, parentPath, currentDepth, all, acc) ==
    [relatedFiles |->
        IF IncludedInSnippets(all[depPath].code)
        THEN Append(acc.relatedFiles,
                    Snippet(depPath, ChildDepth(currentDepth), all[depPath].code))
        ELSE acc.relatedFiles,
     dependencyPaths |-> Append(acc.dependencyPaths, depPath),
     dependencyDepths |-> Append(acc.dependencyDepths, ChildDepth(currentDepth)),
     processedPaths |-> acc.processedPaths,
     dependencyTree |-> Append(acc.dependencyTree,
                               [parent |-> parentPath, path |-> depPath,
                                depth |-> ChildDepth(currentDepth)])]

\* mutant: a file at the depth limit is still expanded
DepthLimitReached_Gt(currentDepth) == currentDepth > maxDepth

\* `currentDepth >= maxDepth`
DepthLimitReached(currentDepth) == currentDepth >= maxDepth

RECURSIVE collectDependencies(_, _, _, _)
RECURSIVE CollectEach(_, _, _, _, _, _)

collectDependencies(currentPath, currentDepth, all, acc) ==
    IF DepthLimitReached(currentDepth) \/ currentPath \in acc.processedPaths
    THEN acc
    ELSE LET list == DependencyList(all[currentPath], all)
         IN  CollectEach(SubSeq(list, 1, Min(Len(list), maxDependenciesPerLevel)), 1,
                         currentPath, currentDepth, all,
                         [acc EXCEPT !.processedPaths = @ \cup {currentPath}])

\* the for loop over dependencies.slice(0, 5), from its k-th element
CollectEach(list, k, currentPath, currentDepth, all, acc) ==
    IF k > Len(list) THEN acc
    ELSE IF list[k] \notin DOMAIN all \/ list[k] \in acc.processedPaths
    THEN CollectEach(list, k + 1, currentPath, currentDepth, all, acc)
    ELSE CollectEach(list, k + 1, currentPath, currentDepth, all,
                     collectDependencies(list[k], ChildDepth(currentDepth), all,
                         RecordDependency(list[k], currentPath, currentDepth, all, acc)))

maxFiles == 8

\* mutant: no marker entry is appended
limitedFiles_NoMarker(found) == SubSeq(found, 1, Min(Len(found), maxFiles))

\* relatedFiles.slice(0, maxFiles), and the marker entry when more were found
limitedFiles(found) ==
    IF Len(found) > maxFiles
    THEN Append(SubSeq(found, 1, maxFiles),
                [kind |-> "omitted", count |-> Len(found) - maxFiles])
    ELSE found

\* buildDependencyContext(component, allComponentFiles, 3)
BuildDependencyContext ==
    /\ UNCHANGED <<batchVars, files, traceVars, extractVars, analyzeVars, utilVars>>
    /\ contextPc = "ready"
    /\ contextPc' = "done"
    /\ LET result == collectDependencies(component, 0, allComponentFiles, EmptyContext)
       IN  /\ relatedFiles' = limitedFiles(result.relatedFiles)
           /\ dependencyPaths' = result.dependencyPaths
           /\ dependencyDepths' = result.dependencyDepths
           /\ dependencyTree' = result.dependencyTree
    /\ UNCHANGED <<component, allComponentFiles>>

ContextNext == BuildDependencyContext

(***************************************************************************)
(* Import graphs given to buildDependencyContext; the component is file 0. *)
(***************************************************************************)
Candidate(codeLength, deps, imps) ==
    [code |-> codeLength, dependencies |-> deps, imports |-> imps]

\* code lengths around the two ceilings
CodeLengths == {2999, 3000, 3001, 7999, 8000, 8001}

\* <<from, from + 1, ..., to>>
Range(from, to) == [k \in 1..(to - from + 1) |-> from + k - 1]

\* the component imports files 1..k, file 1 imports m further files; the
\* component's list is pre-collected or found by analyzeDependencies; when
\* deep, the first of the m files imports the second, which imports file MaxWide
WideGraphs ==
    {[q \in 0..(MaxWide + maxDependenciesPerLevel) |->
        IF q = 0 THEN IF pre THEN Candidate(100, Range(1, k), <<>>)
                             ELSE Candidate(100, <<>>, Range(1, k))
        ELSE IF q = 1 THEN Candidate(len1, <<>>, Range(MaxWide + 1, MaxWide + m))
        ELSE IF q = 2 THEN Candidate(len2, <<>>, <<>>)
        ELSE IF deep /\ q = MaxWide + 1 THEN Candidate(100, <<>>, <<MaxWide + 2>>)
        ELSE IF deep /\ q = MaxWide + 2 THEN Candidate(100, <<>>, <<MaxWide>>)
        ELSE Candidate(100, <<>>, <<>>)] :
        k \in 0..MaxWide, m \in 0..maxDependenciesPerLevel, pre \in BOOLEAN,
        len1 \in CodeLengths, len2 \in {100, 5000, 9000}, deep \in BOOLEAN}

\* files 0..maxDepth, so that a chain of imports reaches the depth limit,
\* importing files among 1..maxDepth: the component and file 1 up to MaxDepList
\* of them, the files between at most one, and the last file at most one,
\* which may be the component or a file that is not a candidate
SmallGraphs ==
    {[q \in 0..maxDepth |->
        IF q = 0 THEN Candidate(100, <<>>, root)
        ELSE IF q = 1 THEN Candidate(100, <<>>, first)
        ELSE IF q < maxDepth THEN Candidate(100, <<>>, between[q])
        ELSE Candidate(100, <<>>, last)] :
        root \in ListsUpTo(1..maxDepth, MaxDepList),
        first \in ListsUpTo(1..maxDepth, MaxDepList),
        between \in [2..(maxDepth - 1) -> ListsUpTo(1..maxDepth, 1)],
        last \in ListsUpTo(0..(maxDepth + 1), 1)}

ContextInit ==
    /\ component = 0
    /\ allComponentFiles \in WideGraphs \cup SmallGraphs
    /\ contextPc = "ready"
    /\ relatedFiles = <<>> /\ dependencyPaths = <<>> /\ dependencyDepths = <<>>
    /\ dependencyTree = <<>>

(***************************************************************************)
(* analyze: clone, library information, scan, analyzeComponents, report,    *)
(* and the finally clause that removes the cloned directory.  A step that   *)
(* throws goes to the catch clause (log, rethrow) and then to finally.      *)
(***************************************************************************)
\* the catch clause rethrows: the finally clause is next
Throws == analyzePc' = "finallyThrown"

\* step 1: gitManager.cloneRepository returns the new directory, or throws
CloneRepository ==
    /\ UNCHANGED <<batchVars, files, traceVars, extractVars, contextVars, utilVars>>
    /\ analyzePc = "clone"
    /\ \/ /\ projectDir' = "cloned"
          /\ tempDirs' = {"projectDir"}
          /\ analyzePc' = "library"
       \/ /\ Throws
          /\ UNCHANGED <<projectDir, tempDirs>>

\* step 2: analyzeLibraryInfo returns, or throws
AnalyzeLibraryInfo ==
    /\ UNCHANGED <<batchVars, files, traceVars, extractVars, contextVars, utilVars>>
    /\ analyzePc = "library"
    /\ analyzePc' = "scan" \/ Throws
    /\ UNCHANGED <<projectDir, tempDirs>>

\* step 3: scanComponents returns componentFiles, or throws; analyzeComponents
\* is called next
ScanComponents ==
    /\ UNCHANGED <<batchVars, files, traceVars, extractVars, contextVars, utilVars>>
    /\ analyzePc = "scan"
    /\ analyzePc' = "components" \/ Throws
    /\ UNCHANGED <<projectDir, tempDirs>>

\* step 5: analyzeComponents has returned; generateReport and saveReport
\* return, or one of them throws
GenerateReport ==
    /\ UNCHANGED <<batchVars, files, traceVars, extractVars, contextVars, utilVars>>
    /\ analyzePc = "components"
    /\ pc = "returned"
    /\ exitCode = -1
    /\ analyzePc' = "finallyReturned" \/ Throws
    /\ UNCHANGED <<projectDir, tempDirs>>

\* GitManager.cleanup: fs.remove of the directory when it exists
cleanup(dirs, targetDir) == dirs \ {targetDir}

\* the finally clause: `if (projectDir) await this.gitManager.cleanup(projectDir)`
Finally ==
    /\ UNCHANGED <<batchVars, files, traceVars, extractVars, contextVars, utilVars>>
    /\ analyzePc \in {"finallyReturned", "finallyThrown"}
    /\ exitCode = -1
    /\ tempDirs' = IF projectDir # "null" THEN cleanup(tempDirs, "projectDir") ELSE tempDirs
    /\ analyzePc' = IF analyzePc = "finallyReturned" THEN "returned" ELSE "thrown"
    /\ UNCHANGED projectDir

\* the steps of the program (the event loop runs them when they are enabled)
AnalyzeSteps ==
    \/ CloneRepository
    \/ AnalyzeLibraryInfo
    \/ ScanComponents
    \/ GenerateReport
    \/ Finally
    \/ /\ analyzePc = "components"
       /\ \/ AnalyzeComponents
          \/ \E p \in DOMAIN tasks : CallAnalyzer(p)
          \/ \E p \in DOMAIN tasks : AnalyzerReturns(p)
          \/ \E p \in DOMAIN tasks : AnalyzerThrows(p)
          \/ BatchResolves
          \/ DelayElapses

\* a signal may arrive, or not
AnalyzeNext ==
    \/ AnalyzeSteps
    \/ analyzePc = "components" /\ HandleInterrupt

AnalyzeInit ==
    /\ analyzePc = "clone" /\ projectDir = "null" /\ tempDirs = {}

(***************************************************************************)
(* createLLMConfigFromEnv (index.ts 177-185)                               *)
(*                                                                         *)
(* process.env is a map from the names of the variables that are set to    *)
(* strings; a config is a map from field names to values.                  *)
(***************************************************************************)
\* `process.env.NAME || fallback`: an unset or empty variable is falsy
EnvOr(name, fallback) ==
    IF name \in DOMAIN processEnv /\ processEnv[name] # ""
    THEN processEnv[name]
    ELSE fallback

\* parseInt on the strings that occur: the leading digits, or NaN (written -1,
\* a value none of these strings parses to) when there is none
parseInt(str) ==
    CASE str = "30000" -> 30000
      [] str = "45000" -> 45000
      [] str = "45s" -> 45
      [] str = "5" -> 5
      [] str = "3" -> 3
      [] OTHER -> -1

\* the object literal of createLLMConfigFromEnv, with `...overrides` last
createLLMConfigFromEnv(over) ==
    MapMerge([field \in {"baseUrl", "apiKey", "model", "timeout"} |->
                 CASE field = "baseUrl" -> EnvOr("LLM_BASE_URL", "https://api.openai.com/v1")
                   [] field = "apiKey" -> EnvOr("LLM_API_KEY", EnvOr("OPENAI_API_KEY", ""))
                   [] field = "model" -> EnvOr("LLM_MODEL", "gpt-3.5-turbo")
                   [] field = "timeout" -> parseInt(EnvOr("LLM_TIMEOUT", "30000"))],
             over)

CreateLLMConfigFromEnv ==
    /\ UNCHANGED <<batchVars, files, traceVars, extractVars, contextVars, analyzeVars>>
    /\ utilPc = "config"
    /\ utilPc' = "configured"
    /\ llmConfig' = createLLMConfigFromEnv(overrides)
    /\ UNCHANGED <<processEnv, overrides, report1, report2, comparison, repoVars>>

ConfigNext == CreateLLMConfigFromEnv

\* the maps from a subset of the keys to one of the values given for each key
MapsOver(values) ==
    UNION {[keys -> UNION {values[n] : n \in keys}] : keys \in SUBSET DOMAIN values}

PartialMaps(values) ==
    {m \in MapsOver(values) : \A n \in DOMAIN m : m[n] \in values[n]}

EnvValues ==
    [n \in {"LLM_BASE_URL", "LLM_API_KEY", "OPENAI_API_KEY", "LLM_MODEL", "LLM_TIMEOUT",
            "LLM_MAX_RETRIES"} |->
        CASE n = "LLM_BASE_URL" -> {"https://custom-api.com/v1"}
          [] n = "LLM_API_KEY" -> {"", "env-api-key"}
          [] n = "OPENAI_API_KEY" -> {"openai-key"}
          [] n = "LLM_MODEL" -> {"custom-model"}
          [] n = "LLM_TIMEOUT" -> {"", "45000", "45s", "soon"}
          [] n = "LLM_MAX_RETRIES" -> {"5"}]

\* one field of an overrides object
Field(name, value) == [n \in {name} |-> value]

OverridesGiven ==
    {MapMerge(MapMerge(a, b), c) :
        a \in {EmptyMap, Field("model", "claude-3-7-sonnet")},
        b \in {EmptyMap, Field("temperature", "0.2")},
        c \in {EmptyMap, Field("maxRetries", 5), Field("maxRetries", 7)}}

ConfigInit ==
    /\ processEnv \in PartialMaps(EnvValues)
    /\ overrides \in OverridesGiven
    /\ llmConfig = EmptyMap
    /\ report1 = Null /\ report2 = Null /\ comparison = Null
    /\ utilPc = "config"
    /\ RepoIdle

(***************************************************************************)
(* compareReports (index.ts 190-261)                                       *)
(*                                                                         *)
(* A report is [library |-> [name, description, useCases],                 *)
(*              components |-> a sequence of                               *)
(*                  [name, chineseName, functions, useCases, uiFeatures,   *)
(*                   properties]].                                         *)
(***************************************************************************)
\* JSON.stringify of an array of strings, as its sequence of tokens
RECURSIVE JSONstringify(_)
JSONstringify(array) ==
    IF Len(array) = 0 THEN <<"[", "]">>
    ELSE IF Len(array) = 1 THEN <<"[", array[1], "]">>
    ELSE <<"[", array[1], ",">> \o Tail(JSONstringify(Tail(array)))

SeqToNames(keys) == {keys[k] : k \in DOMAIN keys}

\* the keys of `new Map(list.map(c => [c.name, c]))`, in insertion order
RECURSIVE MapKeys(_)
MapKeys(list) ==
    IF list = <<>> THEN <<>>
    ELSE LET front == MapKeys(SubSeq(list, 1, Len(list) - 1))
             name == list[Len(list)].name
         IN  IF name \in SeqToNames(front) THEN front ELSE Append(front, name)

\* Map.prototype.has
MapHas(list, name) == \E k \in DOMAIN list : list[k].name = name

\* Map.prototype.get: the last component set under the name
MapGet(list, name) ==
    list[CHOOSE k \in DOMAIN list :
            /\ list[k].name = name
            /\ \A l \in DOMAIN list : list[l].name = name => l <= k]

\* mutant: the keys of the second report are not filtered
added_Unfiltered(components1, components2) == MapKeys(components2)

added(components1, components2) ==
    SelectSeq(MapKeys(components2), LAMBDA name : ~MapHas(components1, name))

removed(components1, components2) ==
    SelectSeq(MapKeys(components1), LAMBDA name : ~MapHas(components2, name))

When(condition, change) == IF condition THEN <<change>> ELSE <<>>

\* const changes, for a component present in both reports
changes(component1, component2) ==
    When(component1.chineseName # component2.chineseName, "chineseName")
        \o When(JSONstringify(component1.functions) # JSONstringify(component2.functions),
                "functions")
        \o When(JSONstringify(component1.useCases) # JSONstringify(component2.useCases),
                "useCases")
        \o When(component1.uiFeatures # component2.uiFeatures, "uiFeatures")
        \o When(Len(component1.properties) # Len(component2.properties), "properties")

\* the loop over components2.entries(), from its k-th key
RECURSIVE modified(_, _, _, _)
modified(keys, k, components1, components2) ==
    IF k > Len(keys) THEN <<>>
    ELSE IF MapHas(components1, keys[k])
            /\ Len(changes(MapGet(components1, keys[k]), MapGet(components2, keys[k]))) > 0
    THEN <<[name |-> keys[k],
            changes |-> changes(MapGet(components1, keys[k]), MapGet(components2, keys[k]))]>>
             \o modified(keys, k + 1, components1, components2)
    ELSE modified(keys, k + 1, components1, components2)

compareReports(r1, r2) ==
    [libraryChanges |->
        [name |-> r1.library.name # r2.library.name,
         description |-> r1.library.description # r2.library.description,
         useCases |-> JSONstringify(r1.library.useCases) # JSONstringify(r2.library.useCases)],
     componentChanges |->
        [added |-> added(r1.components, r2.components),
         removed |-> removed(r1.components, r2.components),
         modified |-> modified(MapKeys(r2.components), 1, r1.components, r2.components)]]

CompareReports ==
    /\ UNCHANGED <<batchVars, files, traceVars, extractVars, contextVars, analyzeVars>>
    /\ utilPc = "compare"
    /\ utilPc' = "compared"
    /\ comparison' = compareReports(report1, report2)
    /\ UNCHANGED <<processEnv, overrides, llmConfig, report1, report2, repoVars>>

CompareNext == CompareReports

\* reports of up to MaxReportComponents components
ComponentInfo(name, chineseName, functions, uiFeatures, properties) ==
    [name |-> name, chineseName |-> chineseName, functions |-> functions,
     useCases |-> <<"form">>, uiFeatures |-> uiFeatures, properties |-> properties]

ComponentsGiven ==
    {ComponentInfo("Button", "anniu", <<"click">>, "round", <<"size">>),
     ComponentInfo("Button", "xin anniu", <<"click", "submit">>, "round", <<"size">>),
     ComponentInfo("Button", "anniu", <<"click">>, "round", <<"size", "type">>),
     ComponentInfo("Modal", "tanchuang", <<>>, "", <<>>),
     ComponentInfo("Modal", "tanchuang", <<>>, "overlay", <<>>)}

LibrariesGiven ==
    {[name |-> "lib", description |-> "a library", useCases |-> <<"admin">>],
     [name |-> "lib2", description |-> "another library", useCases |-> <<"admin">>],
     [name |-> "lib", description |-> "a library", useCases |-> <<"admin", "site">>]}

ReportsGiven ==
    {[library |-> lib, components |-> list] :
        lib \in LibrariesGiven, list \in ListsUpTo(ComponentsGiven, MaxReportComponents)}

CompareInit ==
    /\ processEnv = EmptyMap /\ overrides = EmptyMap /\ llmConfig = EmptyMap
    /\ report1 \in {r \in ReportsGiven : r.library.name = "lib" /\ Len(r.library.useCases) = 1}
    /\ report2 \in ReportsGiven
    /\ comparison = Null
    /\ utilPc = "compare"
    /\ RepoIdle

(***************************************************************************)
(* batchAnalysis (index.ts 46-98)                                          *)
(*                                                                         *)
(* options.outputDir is "out".  insight(config) runs the analysis and, as   *)
(* config.outputPath is set, ends with reportGenerator.saveReport(report,   *)
(* config.outputPath) (cli.ts 375-376).                                     *)
(***************************************************************************)
\* `${options.outputDir}/${repo.name || `repo-${i}`}.json`
outputPath(name, offset) ==
    "out/" \o (IF name # "" THEN name ELSE "repo-" \o ToString(offset)) \o ".json"

\* saveReport with an outputPath whose extension is .json: filePath is outputPath,
\* and fs.writeFile replaces the content of an existing file
saveReport(disk, report, path) ==
    [f \in DOMAIN disk \cup {path} |-> IF f = path THEN report ELSE disk[f]]

\* positions of the batch that starts at offset k: repositories.slice(k, k + maxConcurrency)
RepoBatch(k) == (k + 1)..Min(k + maxConcurrency, Len(repositories))

\* One iteration head of the for loop, up to the await of Promise.all: batch.map
\* runs every callback up to `await insight(config)`, so each config is built
\* with the value i has in this iteration.
StartRepoBatch(k) ==
    /\ repoI' = k
    /\ outputPaths' = outputPaths \o
            [j \in 1..Cardinality(RepoBatch(k)) |-> outputPath(repositories[k + j].name, k)]
    /\ repoTasks' = [r \in DOMAIN repoTasks |->
                        IF r \in RepoBatch(k) THEN "insight" ELSE repoTasks[r]]
    /\ utilPc' = "repos"

\* batchAnalysis from its entry to its first await
BatchAnalysis ==
    /\ UNCHANGED <<batchVars, files, traceVars, extractVars, contextVars, analyzeVars>>
    /\ utilPc = "batchAnalysis"
    /\ IF Len(repositories) = 0
       THEN /\ utilPc' = "returned"
            /\ UNCHANGED <<repoI, outputPaths, repoTasks>>
       ELSE StartRepoBatch(0)
    /\ UNCHANGED <<processEnv, overrides, llmConfig, report1, report2, comparison,
                   repositories, maxConcurrency, outputFiles, results>>

\* insight(config) returns the report, which analyze has saved at config.outputPath
InsightReturns(r) ==
    /\ UNCHANGED <<batchVars, files, traceVars, extractVars, contextVars, analyzeVars>>
    /\ repoTasks[r] = "insight"
    /\ outputFiles' = saveReport(outputFiles, r, outputPaths[r])
    /\ repoTasks' = [repoTasks EXCEPT ![r] = "fulfilled"]
    /\ UNCHANGED <<processEnv, overrides, llmConfig, report1, report2, comparison, utilPc,
                   repositories, maxConcurrency, repoI, outputPaths, results>>

\* insight(config) throws before a report is saved: the callback returns null
InsightThrows(r) ==
    /\ UNCHANGED <<batchVars, files, traceVars, extractVars, contextVars, analyzeVars>>
    /\ repoTasks[r] = "insight"
    /\ repoTasks' = [repoTasks EXCEPT ![r] = "null"]
    /\ UNCHANGED <<processEnv, overrides, llmConfig, report1, report2, comparison, utilPc,
                   repositories, maxConcurrency, repoI, outputPaths, outputFiles, results>>

\* Promise.all(batchPromises) resolves: the reports are appended and the loop goes on
RepoBatchResolves ==
    /\ UNCHANGED <<batchVars, files, traceVars, extractVars, contextVars, analyzeVars>>
    /\ utilPc = "repos"
    /\ \A r \in RepoBatch(repoI) : repoTasks[r] \in {"fulfilled", "null"}
    /\ results' = push(results, ValidResults(repoTasks, repoI + 1,
                                             Min(repoI + maxConcurrency, Len(repositories))))
    /\ IF repoI + maxConcurrency < Len(repositories)
       THEN StartRepoBatch(repoI + maxConcurrency)
       ELSE /\ utilPc' = "returned"
            /\ UNCHANGED <<repoI, outputPaths, repoTasks>>
    /\ UNCHANGED <<processEnv, overrides, llmConfig, report1, report2, comparison,
                   repositories, maxConcurrency, outputFiles>>

BatchAnalysisNext ==
    \/ BatchAnalysis
    \/ \E r \in DOMAIN repoTasks : InsightReturns(r)
    \/ \E r \in DOMAIN repoTasks : InsightThrows(r)
    \/ RepoBatchResolves

\* the names given to repositories; "" stands for a repository passed without a name
RepoNames == {"", "ui", "kit"}

RECURSIVE SeqsUpTo(_, _)
SeqsUpTo(S, n) ==
    IF n = 0 THEN {<<>>}
    ELSE SeqsUpTo(S, n - 1) \cup [1..n -> S]

BatchAnalysisInit ==
    /\ processEnv = EmptyMap /\ overrides = EmptyMap /\ llmConfig = EmptyMap
    /\ report1 = Null /\ report2 = Null /\ comparison = Null
    /\ utilPc = "batchAnalysis"
    /\ repositories \in SeqsUpTo([name : RepoNames], MaxRepositories)
    /\ maxConcurrency \in 1..3
    /\ repoI = 0
    /\ repoTasks = [r \in 1..Len(repositories) |-> "none"]
    /\ outputPaths = <<>> /\ outputFiles = EmptyMap /\ results = <<>>

(***************************************************************************)
(* Specifications                                                          *)
(***************************************************************************)
ContextIdle ==
    /\ component = Null /\ allComponentFiles = EmptyMap /\ contextPc = "off"
    /\ relatedFiles = <<>> /\ dependencyPaths = <<>> /\ dependencyDepths = <<>>
    /\ dependencyTree = <<>>

\* analyze is not modelled: analyzeComponents is called directly
AnalyzeIdle ==
    /\ analyzePc = "off" /\ projectDir = "null" /\ tempDirs = {}

UtilIdle ==
    /\ processEnv = EmptyMap /\ overrides = EmptyMap /\ llmConfig = EmptyMap
    /\ report1 = Null /\ report2 = Null /\ comparison = Null /\ utilPc = "off"
    /\ RepoIdle

Init ==
    /\ BatchInit(CandidateCounts)
    /\ files = EmptyMap
    /\ TraceIdle
    /\ ExtractIdle
    /\ ContextIdle /\ AnalyzeIdle /\ UtilIdle

Next == BatchNext

Spec == Init /\ [][Next]_vars

TraceSpecInit ==
    /\ BatchInit({0})
    /\ TraceInit
    /\ ExtractIdle
    /\ ContextIdle /\ AnalyzeIdle /\ UtilIdle

TraceSpec == TraceSpecInit /\ [][TraceNext]_vars

ExtractSpecInit ==
    /\ BatchInit({0})
    /\ TraceIdle
    /\ ExtractInit(ExtractTrees(MaxSubStatements))
    /\ ContextIdle /\ AnalyzeIdle /\ UtilIdle

ExtractSpec == ExtractSpecInit /\ [][ExtractNext]_vars

\* the resolver on the trees whose sub has at most one statement; a pending
\* call is run: the event loop has nothing else to do
ExtractLiveSpecInit ==
    /\ BatchInit({0})
    /\ TraceIdle
    /\ ExtractInit(ExtractTrees(1))
    /\ ContextIdle /\ AnalyzeIdle /\ UtilIdle

ExtractLiveSpec == ExtractLiveSpecInit /\ [][ExtractNext]_vars /\ WF_vars(ExtractNext)

ContextSpecInit ==
    /\ BatchInit({0})
    /\ files = EmptyMap
    /\ TraceIdle
    /\ ExtractIdle
    /\ ContextInit /\ AnalyzeIdle /\ UtilIdle

ContextSpec == ContextSpecInit /\ [][ContextNext]_vars

ConfigSpecInit ==
    /\ BatchInit({0})
    /\ files = EmptyMap
    /\ TraceIdle
    /\ ExtractIdle
    /\ ContextIdle /\ AnalyzeIdle /\ ConfigInit

ConfigSpec == ConfigSpecInit /\ [][ConfigNext]_vars

CompareSpecInit ==
    /\ BatchInit({0})
    /\ files = EmptyMap
    /\ TraceIdle
    /\ ExtractIdle
    /\ ContextIdle /\ AnalyzeIdle /\ CompareInit

CompareSpec == CompareSpecInit /\ [][CompareNext]_vars

BatchAnalysisSpecInit ==
    /\ BatchInit({0})
    /\ files = EmptyMap
    /\ TraceIdle
    /\ ExtractIdle
    /\ ContextIdle /\ AnalyzeIdle /\ BatchAnalysisInit

BatchAnalysisSpec == BatchAnalysisSpecInit /\ [][BatchAnalysisNext]_vars

AnalyzeSpecInit ==
    /\ BatchInit(0..MaxAnalyzeCount)
    /\ files = EmptyMap
    /\ TraceIdle
    /\ ExtractIdle
    /\ ContextIdle /\ AnalyzeInit /\ UtilIdle

AnalyzeSpec == AnalyzeSpecInit /\ [][AnalyzeNext]_vars

\* every enabled step of the program is eventually run; signals are not forced
AnalyzeLiveSpec == AnalyzeSpec /\ WF_vars(AnalyzeSteps)

(***************************************************************************)
(* Properties of the batch orchestrator                                    *)
(***************************************************************************)
InFlight == {p \in DOMAIN tasks : tasks[p] = "inflight"}
Started == {"inflight", "fulfilled", "null", "rejected"}
\* the run of analyzeComponents is over: it returned, or the process is gone
RunOver == pc = "returned" \/ exitCode # -1
\* candidates whose callback completed with a result
Completed == {p \in DOMAIN tasks : tasks[p] = "fulfilled"}
SeqToSet(s) == {s[k] : k \in DOMAIN s}
NoDuplicates(s) == Cardinality(SeqToSet(s)) = Len(s)

\* C1: a run that was interrupted during a batch or during the delay still ends
\* by returning a list that holds the results of the candidates completed in the
\* batches started before the interrupt, none of them twice.
C1_InterruptedRunReturnsCompleted ==
    (isAborted /\ RunOver) =>
        /\ pc = "returned"
        /\ NoDuplicates(components)
        /\ \A p \in Completed : BatchNumberOf(p) < abortController => p \in SeqToSet(components)

\* C2: no analysis call of batch k+1 is started until every call of batch k has
\* settled, or batch k was abandoned by cancellation.
C2_BatchesInSequence ==
    pc # "init" =>
        \A q \in 1..componentsToAnalyze :
            (tasks[q] \in Started /\ BatchNumberOf(q) > 1) =>
                \A p \in BatchPositions((BatchNumberOf(q) - 2) * batchSize) :
                    tasks[p] \in Settled \/ BatchNumberOf(p) \in abortedSignals

C2_Witness ==
    /\ componentsToAnalyze >= 3
    /\ tasks[1] = "null"
    /\ tasks[3] = "inflight"

\* C3: the number of analyzer calls in flight is at most the batch size, and
\* never more than 5.
C3_InFlightBounded ==
    /\ Cardinality(InFlight) <= batchSize
    /\ Cardinality(InFlight) <= 5

C3_Witness ==
    /\ Cardinality(InFlight) = 5
    /\ batchSize = 5

\* C4: in a run without cancellation a throwing candidate yields null and
\* nothing else: every candidate to analyze was run to its end, and the returned
\* list holds exactly the candidates whose analyzer call returned normally.
C4_FailureIsPerCandidate ==
    (pc = "returned" /\ ~isAborted) =>
        /\ \A p \in 1..componentsToAnalyze : tasks[p] \in {"fulfilled", "null"}
        /\ SeqToSet(components) = Completed
        /\ NoDuplicates(components)

C4_Witness ==
    /\ pc = "returned" /\ ~isAborted
    /\ componentsToAnalyze >= 3
    /\ tasks[1] = "null"
    /\ 2 \in SeqToSet(components)
    /\ 3 \in SeqToSet(components)

\* C28: the list under construction holds candidates in input order at every
\* moment, and the returned list is the input list restricted to the candidates
\* whose analyzer call returned normally, in whatever order the callbacks of a
\* batch settled.
C28_InputOrderPreserved ==
    /\ \A a \in 1..(Len(components) - 1) : components[a] < components[a + 1]
    /\ pc = "returned" =>
          SeqToSet(components) = {p \in 1..componentsToAnalyze : tasks[p] = "fulfilled"}

\* a batch of two whose second callback fulfilled before the first one
C28_Witness ==
    /\ pc = "returned"
    /\ outOfOrder
    /\ componentsToAnalyze = 2
    /\ components = <<1, 2>>

\* C29: analyzeComponents registers its two listeners once and, when it has
\* returned (empty list, normal completion, or after a batch error), none of
\* them is left on the process.
C29_ListenersRemoved ==
    /\ listeners \in {0, 2}
    /\ pc \in {"batch", "delay"} => listeners = 2
    /\ pc = "returned" => listeners = 0

\* a run of two batches, with a failed candidate, has returned
C29_Witness ==
    /\ pc = "returned" /\ listeners = 0
    /\ delaysAwaited >= 1
    /\ tasks[1] = "null"
    /\ Len(components) = componentsToAnalyze - 1

\* C5: the batch size is 2 for n <= 10 candidates to analyze, 3 for
\* 10 < n <= 30, 4 for 30 < n <= 60 and 5 for n > 60.
C5_BatchSizeTable ==
    pc \notin {"init"} /\ componentFiles > 0 =>
        /\ componentsToAnalyze <= 10 => batchSize = 2
        /\ (10 < componentsToAnalyze /\ componentsToAnalyze <= 30) => batchSize = 3
        /\ (30 < componentsToAnalyze /\ componentsToAnalyze <= 60) => batchSize = 4
        /\ componentsToAnalyze > 60 => batchSize = 5

C5_Witness ==
    /\ componentsToAnalyze = 45
    /\ batchSize = 4
    /\ pc = "returned"

C17_NoBatchAfterSignal ==
    [][abortedSignals # {} =>
          \A p \in DOMAIN tasks : tasks[p] = "none" => tasks'[p] = "none"]_vars

\* the signal arrived during the delay, with batches left
C17_Witness ==
    /\ abortedSignals # {}
    /\ pc = "delay"
    /\ \E p \in DOMAIN tasks : tasks[p] = "none"

\* the number of batches of the run
NumBatches == (componentsToAnalyze + batchSize - 1) \div batchSize

\* C18: in an uncancelled run with B batches the delay is awaited once between
\* each two consecutive batches, B - 1 times in all: when it is awaited the
\* results of all batches so far have been appended and a batch remains, and
\* when batch number k runs the delay has been awaited k - 1 times.
C18_DelayBetweenBatches ==
    ~isAborted =>
        /\ (pc = "returned" /\ componentsToAnalyze > 0) => delaysAwaited = NumBatches - 1
        /\ pc = "batch" => delaysAwaited = i \div batchSize
        /\ pc = "delay" =>
              /\ delaysAwaited = (i \div batchSize) + 1
              /\ i + batchSize < componentsToAnalyze
              /\ SeqToSet(components) = {p \in 1..(i + batchSize) : tasks[p] = "fulfilled"}

\* a run of at least three batches has returned uncancelled
C18_Witness ==
    /\ pc = "returned" /\ ~isAborted
    /\ batchSize > 0
    /\ NumBatches >= 3
    /\ delaysAwaited = NumBatches - 1

(***************************************************************************)
(* Properties of the implementation tracer                                 *)
(***************************************************************************)
\* the file declares or defines name
Declares(path, name) ==
    \/ name \in files[path].decls
    \/ \E k \in DOMAIN files[path].stmts :
          files[path].stmts[k].kind \in {"default", "inline"} /\ files[path].stmts[k].local = name

\* the named re-exports of name in the file whose module resolves
NamedReExports(path, name) ==
    {k \in DOMAIN files[path].stmts :
        /\ files[path].stmts[k].kind = "named"
        /\ files[path].stmts[k].exported = name
        /\ resolveFilePath(files[path].stmts[k].source, DOMAIN files) # Null}
HasWildcard(path) ==
    \E k \in DOMAIN files[path].stmts : files[path].stmts[k].kind = "all"

\* the file re-exports name by one named re-export (not of a default), has no
\* wildcard re-export and does not declare name
IsNamedLink(path, name) ==
    /\ path \in DOMAIN files /\ files[path].parses
    /\ ~Declares(path, name) /\ ~HasWildcard(path)
    /\ Cardinality(NamedReExports(path, name)) = 1
    /\ \A k \in NamedReExports(path, name) : files[path].stmts[k].local # "default"
LinkStatement(path, name) ==
    files[path].stmts[CHOOSE k \in NamedReExports(path, name) : TRUE]
LinkTarget(path, name) == resolveFilePath(LinkStatement(path, name).source, DOMAIN files)

\* path starts a chain of len files: len - 1 named links, then a file that
\* declares the name and does not re-export it
RECURSIVE IsNamedChain(_, _, _)
IsNamedChain(path, name, len) ==
    IF len = 1
    THEN /\ path \in DOMAIN files /\ files[path].parses
         /\ Declares(path, name)
         /\ NamedReExports(path, name) = {}
    ELSE /\ IsNamedLink(path, name)
         /\ IsNamedChain(LinkTarget(path, name), LinkStatement(path, name).local, len - 1)

RECURSIVE ChainSet(_, _, _)
ChainSet(path, name, len) ==
    IF len = 1 THEN {path}
    ELSE {path} \cup ChainSet(LinkTarget(path, name), LinkStatement(path, name).local, len - 1)

RECURSIVE ChainEnd(_, _, _)
ChainEnd(path, name, len) ==
    IF len = 1 THEN path
    ELSE ChainEnd(LinkTarget(path, name), LinkStatement(path, name).local, len - 1)

\* C7: for a chain of named re-exports whose last file alone declares the
\* symbol, of at most maxTraceDepth + 1 files, the tracer returns the last file
\* and its dependency set is the set of the files of the chain.
C7_NamedChainResolves ==
    tracePc = "done" =>
        \A len \in 1..(maxTraceDepth + 1) :
            IsNamedChain(filePath, componentName, len) =>
                /\ traceReturn = ChainEnd(filePath, componentName, len)
                /\ dependencies = ChainSet(filePath, componentName, len)

C7_Witness ==
    /\ tracePc = "done"
    /\ IsNamedChain(filePath, componentName, 3)
    /\ traceReturn = PathOf(3)
    /\ dependencies = {PathOf(1), PathOf(2), PathOf(3)}

\* filePath (A) re-exports componentName from another file B by a named
\* re-export, B re-exports it back from A, and neither declares it
IsNamedCycle ==
    /\ IsNamedLink(filePath, componentName)
    /\ LinkTarget(filePath, componentName) # filePath
    /\ IsNamedLink(LinkTarget(filePath, componentName),
                   LinkStatement(filePath, componentName).local)
    /\ LinkTarget(LinkTarget(filePath, componentName),
                  LinkStatement(filePath, componentName).local) = filePath

DefaultAsStatements(path, name) ==
    {k \in NamedReExports(path, name) : files[path].stmts[k].local = "default"}

\* C9: when a traversed file has `export { default as Foo } from './Bar'` for the
\* name Foo being traced and './Bar' resolves, the trace returns Bar's file and
\* makes no further hop, whether or not Bar declares Foo.
C9_DefaultAsIsFinal ==
    tracePc = "done" =>
        \A c \in DOMAIN scanned :
            \A k \in DefaultAsStatements(scanned[c].path, scanned[c].name) :
                /\ c = Len(scanned)
                /\ traceReturn = resolveFilePath(files[scanned[c].path].stmts[k].source,
                                                 DOMAIN files)

C9_Witness ==
    /\ tracePc = "done"
    /\ Len(scanned) = 2
    /\ DefaultAsStatements(scanned[2].path, scanned[2].name) # {}
    /\ traceReturn = PathOf(3)
    /\ ~Declares(PathOf(3), scanned[2].name)

\* the files that the wildcard re-exports of the file resolve to
WildcardTargets(path) ==
    {resolveFilePath(files[path].stmts[k].source, DOMAIN files) :
        k \in {l \in DOMAIN files[path].stmts : files[path].stmts[l].kind = "all"}} \ {Null}

\* filePath declares nothing and consists of wildcard re-exports of at least two
\* files of the Source Index, none of which has an export statement; one of
\* them declares componentName, the others declare nothing
IsWildcardFanOut ==
    /\ filePath \in DOMAIN files /\ files[filePath].parses
    /\ files[filePath].decls = {}
    /\ \A k \in DOMAIN files[filePath].stmts : files[filePath].stmts[k].kind = "all"
    /\ \A k \in DOMAIN files[filePath].stmts :
          resolveFilePath(files[filePath].stmts[k].source, DOMAIN files) # Null
    /\ filePath \notin WildcardTargets(filePath)
    /\ Cardinality(WildcardTargets(filePath)) >= 2
    /\ \A t \in WildcardTargets(filePath) : files[t].parses
    /\ Cardinality({t \in WildcardTargets(filePath) : Declares(t, componentName)}) = 1
    /\ \A t \in WildcardTargets(filePath) :
          /\ files[t].stmts = <<>>
          /\ ~Declares(t, componentName) => files[t].decls = {}

\* C22: when the traced file has several wildcard re-exports and the name is
\* declared in exactly one of their targets, the trace returns the file that
\* declares the name, whichever position its wildcard statement has.
C22_WildcardResolvesToDeclaringFile ==
    (tracePc = "done" /\ IsWildcardFanOut) =>
        /\ traceReturn \in WildcardTargets(filePath)
        /\ Declares(traceReturn, componentName)

\* path starts a run of n named links
RECURSIVE IsLinkRun(_, _, _)
IsLinkRun(path, name, n) ==
    IF n = 0 THEN TRUE
    ELSE /\ IsNamedLink(path, name)
         /\ IsLinkRun(LinkTarget(path, name), LinkStatement(path, name).local, n - 1)

\* filePath starts an acyclic chain that is longer than the depth cap: a run of
\* maxTraceDepth + 1 named links through distinct files to one more file
IsDeepChain ==
    /\ IsLinkRun(filePath, componentName, maxTraceDepth + 1)
    /\ Cardinality(ChainSet(filePath, componentName, maxTraceDepth + 2)) = maxTraceDepth + 2

ExportedHere(path) ==
    {n \in Names : \E k \in DOMAIN files[path].stmts :
        LET stmt == files[path].stmts[k]
        IN  \/ stmt.kind \in {"local", "inline"} /\ stmt.exported = n
            \/ stmt.kind = "default" /\ stmt.local = n
            \/ /\ stmt.kind = "named" /\ stmt.exported = n
               /\ resolveFilePath(stmt.source, DOMAIN files) # Null}

\* the component names a wildcard re-export of the file propagates: those it
\* exports and those its own wildcard re-exports propagate, kept when they are
\* PascalCase and pass the component-name filter against the file
RECURSIVE PropagatedNames(_)
PropagatedNames(path) ==
    {n \in ExportedHere(path) \cup UNION {PropagatedNames(t) : t \in WildcardTargets(path)} :
        isPascalCase(n) /\ isLikelyComponent(n, files[path])}

\* C10: for an entry with `export * from './sub'` the map has every PascalCase
\* component name that sub defines, by any export form, or re-exports, also
\* through nested wildcard re-exports.
C10_WildcardPropagatesEveryName ==
    extractPc = "done" =>
        \A t \in WildcardTargets(indexPath) :
            \A n \in PropagatedNames(t) :
                isLikelyComponent(n, files[indexPath]) => n \in DOMAIN componentInfoMap

\* the file has only local definitions: no statement re-exports from a module
LocalOnly(path) ==
    \A k \in DOMAIN files[path].stmts :
        files[path].stmts[k].kind \in {"local", "inline", "default"}

\* C11: for an entry with only local definitions and no re-export, the keys of
\* the map are exactly the PascalCase component names the entry exports, and
\* each is mapped to the entry's own path.
C11_LocalEntryMapsItsExports ==
    (extractPc = "done" /\ LocalOnly(indexPath)) =>
        /\ DOMAIN componentInfoMap =
               {n \in ExportedHere(indexPath) :
                   isPascalCase(n) /\ isLikelyComponent(n, files[indexPath])}
        /\ \A n \in DOMAIN componentInfoMap : componentInfoMap[n] = indexPath

\* The path that the export statements of the file give the name n, or Null:
\* that of the last wildcard re-export whose module gives n a path, else that of
\* the last named, local or default export of n.  Names that the filter of the
\* file drops have no path.
RECURSIVE LastWriterPath(_, _)
LastWriterPath(path, n) ==
    LET stmts == files[path].stmts
        target(k) == resolveFilePath(stmts[k].source, DOMAIN files)
        given(k) ==
            CASE stmts[k].kind = "all" ->
                    IF target(k) = Null THEN Null ELSE LastWriterPath(target(k), n)
              [] stmts[k].kind = "named" /\ stmts[k].exported = n -> target(k)
              [] stmts[k].kind = "local" /\ stmts[k].exported = n -> path
              [] stmts[k].kind = "default" /\ stmts[k].local = n -> path
              [] OTHER -> Null
        stars == {k \in DOMAIN stmts : stmts[k].kind = "all" /\ given(k) # Null}
        others == {k \in DOMAIN stmts : stmts[k].kind # "all" /\ given(k) # Null}
        last(S) == CHOOSE k \in S : \A j \in S : j <= k
    IN  IF ~(isPascalCase(n) /\ isLikelyComponent(n, files[path])) THEN Null
        ELSE IF stars # {} THEN given(last(stars))
        ELSE IF others # {} THEN given(last(others))
        ELSE Null

\* C24: the path of every name of the map is the one written last: that of the
\* last wildcard re-export that supplies the name, whatever its position among
\* the statements, else that of the last other statement that supplies it.
C24_LastWriterWins ==
    extractPc = "done" =>
        \A n \in DOMAIN componentInfoMap :
            componentInfoMap[n] = LastWriterPath(indexPath, n)

\* a named re-export that follows a wildcard re-export supplies the same name
\* with another path, and the map has the wildcard's path
C24_Witness ==
    /\ extractPc = "done"
    /\ \E k, j \in DOMAIN files[indexPath].stmts : \E n \in DOMAIN componentInfoMap :
          LET stmts == files[indexPath].stmts
              t == resolveFilePath(stmts[k].source, DOMAIN files)
          IN  /\ k < j
              /\ stmts[k].kind = "all" /\ t # Null
              /\ stmts[j].kind = "named" /\ stmts[j].exported = n
              /\ resolveFilePath(stmts[j].source, DOMAIN files) # Null
              /\ LastWriterPath(t, n) # Null
              /\ LastWriterPath(t, n) # resolveFilePath(stmts[j].source, DOMAIN files)
              /\ componentInfoMap[n] = LastWriterPath(t, n)

\* the statements of the file that name a module that is not in the Source Index
Unresolved(path) ==
    {k \in DOMAIN files[path].stmts :
        /\ files[path].stmts[k].kind \in {"named", "all"}
        /\ resolveFilePath(files[path].stmts[k].source, DOMAIN files) = Null}

\* C25: the extraction returns although a module of a re-export is not in the
\* Source Index: every path of the map is the extracted file or a file of the
\* Source Index, every name of the map is supplied by a statement that resolves
\* (a name that only unresolved re-exports supply is not in the map), and the
\* local, default and resolved named exports that pass the filter are in the map.
C25_UnresolvedDropped ==
    extractPc = "done" =>
        /\ \A n \in DOMAIN componentInfoMap :
              componentInfoMap[n] = indexPath \/ componentInfoMap[n] \in DOMAIN files
        /\ \A n \in DOMAIN componentInfoMap : LastWriterPath(indexPath, n) # Null
        /\ \A k \in DOMAIN files[indexPath].stmts \ Unresolved(indexPath) :
              LET stmt == files[indexPath].stmts[k]
                  n == IF stmt.kind = "default" THEN stmt.local ELSE stmt.exported
              IN  (/\ stmt.kind \in {"named", "local", "default"}
                   /\ isPascalCase(n) /\ isLikelyComponent(n, files[indexPath]))
                      => n \in DOMAIN componentInfoMap

\* the entry has a re-export of a missing module and another export, and the
\* map returned has the other export only
C25_Witness ==
    /\ extractPc = "done"
    /\ Unresolved(indexPath) # {}
    /\ \E k \in Unresolved(indexPath) :
          /\ files[indexPath].stmts[k].kind = "named"
          /\ files[indexPath].stmts[k].exported \notin DOMAIN componentInfoMap
    /\ componentInfoMap # EmptyMap

\* the name ends in the word, as written
HasSuffix(name, word) == EndsWith(Spelling[name], Spelling[word], FALSE)

\* C26: a name is in the map only if it is PascalCase and has none of the
\* suffixes Config, Constants, Types, Enum, Utils, Helper, Manager, Service; a
\* PascalCase name ending in Provider that the entry exports is in the map
\* unless it is Api*Provider, Http*Provider, Data*Provider or Service*Provider.
C26_OnlyComponentNamesKept ==
    extractPc = "done" =>
        /\ \A n \in DOMAIN componentInfoMap :
              /\ isPascalCase(n)
              /\ \A word \in {"Config", "Constants", "Types", "Enum", "Utils", "Helper",
                                "Manager", "Service"} : ~HasSuffix(n, word)
        /\ \A n \in Names :
              (/\ n \in ExportedHere(indexPath)
               /\ n \notin files[indexPath].typeNames
               /\ isPascalCase(n) /\ HasSuffix(n, "Provider")
               /\ ~\E word \in {"Api", "Http", "Data", "Service"} :
                      /\ StartsWith(Spelling[n], Spelling[word])
                      /\ Len(Spelling[n]) >= Len(Spelling[word]) + Len(Spelling.Provider))
                  => n \in DOMAIN componentInfoMap

Snippets == {k \in DOMAIN relatedFiles : relatedFiles[k].kind = "snippet"}

\* the number of snippets the walk produced, before the cap
FoundSnippets ==
    Cardinality({k \in DOMAIN dependencyPaths :
                    IncludedInSnippets(allComponentFiles[dependencyPaths[k]].code)})

\* C12 as stated: relatedFiles has at most 8 entries.
C12_AtMostEightEntries ==
    contextPc = "done" => Len(relatedFiles) <= maxFiles

\* C12 amended: relatedFiles has at most 8 snippets; when the walk produced
\* more than 8, they are followed by one marker entry that counts the omitted
\* ones, so the list has 9 entries; otherwise it has no marker entry.
C12_EightSnippetsAndMarker ==
    contextPc = "done" =>
        /\ Cardinality(Snippets) = Min(FoundSnippets, maxFiles)
        /\ Snippets = 1..Cardinality(Snippets)
        /\ IF FoundSnippets > maxFiles
           THEN /\ Len(relatedFiles) = maxFiles + 1
                /\ relatedFiles[maxFiles + 1] =
                       [kind |-> "omitted", count |-> FoundSnippets - maxFiles]
           ELSE Len(relatedFiles) = FoundSnippets

C12_Witness ==
    contextPc = "done" /\ FoundSnippets > maxFiles /\ Len(relatedFiles) = maxFiles + 1

CodeOf(k) == allComponentFiles[dependencyPaths[k]].code

\* the snippets the dependencies recorded from the k-th on should produce, when
\* a dependency produces one iff its code has at most `ceiling` characters: the
\* whole code up to 3000 characters, else its first 3000 and the marker
RECURSIVE ExpectedSnippets(_, _)
ExpectedSnippets(k, ceiling) ==
    IF k > Len(dependencyPaths) THEN <<>>
    ELSE IF CodeOf(k) > ceiling THEN ExpectedSnippets(k + 1, ceiling)
    ELSE <<[kind |-> "snippet", path |-> dependencyPaths[k],
            depth |-> dependencyDepths[k],
            prefix |-> IF CodeOf(k) <= 3000 THEN CodeOf(k) ELSE 3000,
            marker |-> CodeOf(k) > 3000]>> \o ExpectedSnippets(k + 1, ceiling)

\* the snippets of relatedFiles are the first 8 expected ones, and every
\* dependency recorded has its node in the tree
SnippetsAre(expected) ==
    /\ SubSeq(relatedFiles, 1, Cardinality(Snippets))
           = SubSeq(expected, 1, Min(Len(expected), maxFiles))
    /\ Len(dependencyTree) = Len(dependencyPaths)
    /\ \A k \in DOMAIN dependencyPaths :
           /\ dependencyTree[k].path = dependencyPaths[k]
           /\ dependencyTree[k].depth = dependencyDepths[k]

\* C13 as stated: a dependency produces a snippet iff its code has at most
\* 8000 characters; the snippet is the whole code up to 3000 characters and
\* the first 3000 characters followed by the marker beyond; a dependency
\* without a snippet is still in dependencyPaths and in the tree.
C13_SnippetUpToEightThousand ==
    contextPc = "done" => SnippetsAre(ExpectedSnippets(1, 8000))

\* C13 amended: a dependency produces a snippet iff its code has fewer than
\* 8000 characters (one of exactly 8000 produces none); the rest as stated.
C13_SnippetBelowEightThousand ==
    contextPc = "done" => SnippetsAre(ExpectedSnippets(1, 7999))

C13_Witness ==
    /\ contextPc = "done"
    /\ \E k \in DOMAIN dependencyPaths : CodeOf(k) = 8000
    /\ \E k \in DOMAIN relatedFiles :
          relatedFiles[k].kind = "snippet" /\ relatedFiles[k].marker
    /\ \E k \in DOMAIN relatedFiles :
          relatedFiles[k].kind = "snippet" /\ ~relatedFiles[k].marker

\* C19: no path occurs more than once in dependencyPaths, so no file gives two
\* snippets, also when it is reachable through several parents or depths.
C19_NoPathRecordedTwice ==
    contextPc = "done" =>
        /\ NoDuplicates(dependencyPaths)
        /\ \A k, l \in Snippets : relatedFiles[k].path = relatedFiles[l].path => k = l

\* the candidates a candidate's loop visits: the first 5 of its list
LoopTargets(q) ==
    LET list == DependencyList(allComponentFiles[q], allComponentFiles)
    IN  {list[k] : k \in 1..Min(Len(list), maxDependenciesPerLevel)}
            \cap DOMAIN allComponentFiles

\* the files within d import steps of the component
RECURSIVE Within(_)
Within(d) ==
    IF d = 0 THEN {component}
    ELSE Within(d - 1) \cup UNION {LoopTargets(q) : q \in Within(d - 1)}

SmallestDepth(q) == CHOOSE d \in 1..maxDepth : q \in Within(d) /\ q \notin Within(d - 1)

ParentOf(k) ==
    IF dependencyDepths[k] = 1 THEN component
    ELSE LET above == {l \in 1..(k - 1) : dependencyDepths[l] = dependencyDepths[k] - 1}
         IN  IF above = {} THEN -1
             ELSE dependencyPaths[CHOOSE l \in above : \A m \in above : m <= l]

ChildrenOf(p) == {k \in DOMAIN dependencyTree : dependencyTree[k].parent = p}

\* C21: for every import graph, no file has more than 5 children in the
\* dependency tree, every recorded depth is between 1 and 3, and every node is
\* the child of the component (depth 1) or of a node recorded one level above
\* it, so that no node at depth 3 is expanded.
C21_FanOutAndDepthBounded ==
    contextPc = "done" =>
        /\ \A p \in DOMAIN allComponentFiles : Cardinality(ChildrenOf(p)) <= 5
        /\ \A k \in DOMAIN dependencyDepths : dependencyDepths[k] \in 1..3
        /\ \A k \in DOMAIN dependencyTree :
              /\ dependencyTree[k].depth \in 1..3
              /\ IF dependencyTree[k].depth = 1
                 THEN dependencyTree[k].parent = component
                 ELSE \E j \in 1..(k - 1) :
                        /\ dependencyTree[j].path = dependencyTree[k].parent
                        /\ dependencyTree[j].depth = dependencyTree[k].depth - 1

\* the component lists more than 5 candidates and has 5 children, and a node
\* at depth 3 imports a candidate that was never recorded
C21_Witness ==
    /\ contextPc = "done"
    /\ Len(DependencyList(allComponentFiles[component], allComponentFiles)) > 5
    /\ Cardinality(ChildrenOf(component)) = 5
    /\ \E k \in DOMAIN dependencyTree :
          /\ dependencyTree[k].depth = 3
          /\ \E q \in SeqToSet(DependencyList(allComponentFiles[dependencyTree[k].path],
                                                allComponentFiles)) :
                /\ q \in DOMAIN allComponentFiles
                /\ \A j \in DOMAIN dependencyPaths : dependencyPaths[j] # q

(***************************************************************************)
(* Properties of analyze                                                   *)
(***************************************************************************)
\* C14: every run of analyze that cloned the repository eventually removes the
\* cloned directory, whether it completes, fails, or is interrupted during
\* the analysis of the components.
C14_ClonedDirEventuallyRemoved ==
    (projectDir = "cloned") ~> (tempDirs = {})

(***************************************************************************)
(* Properties of createLLMConfigFromEnv                                    *)
(***************************************************************************)
\* C16: the config returned has maxRetries: the value of overrides when it
\* gives one, else the integer value of LLM_MAX_RETRIES when it is set, else 3.
C16_MaxRetriesFromEnv ==
    utilPc = "configured" =>
        /\ "maxRetries" \in DOMAIN llmConfig
        /\ llmConfig["maxRetries"] =
              IF "maxRetries" \in DOMAIN overrides THEN overrides["maxRetries"]
              ELSE IF "LLM_MAX_RETRIES" \in DOMAIN processEnv
              THEN parseInt(processEnv["LLM_MAX_RETRIES"])
              ELSE 3

(***************************************************************************)
(* Properties of compareReports                                            *)
(***************************************************************************)
NamesIn(report) == {report.components[k].name : k \in DOMAIN report.components}

\* C15: added is exactly the component names of report2 that report1 lacks and
\* removed exactly those of report1 that report2 lacks, each once; two equal
\* reports give no library change and no added, removed or modified component.
C15_AddedAndRemovedAreSetDifferences ==
    utilPc = "compared" =>
        /\ SeqToSet(comparison.componentChanges.added) = NamesIn(report2) \ NamesIn(report1)
        /\ NoDuplicates(comparison.componentChanges.added)
        /\ SeqToSet(comparison.componentChanges.removed) = NamesIn(report1) \ NamesIn(report2)
        /\ NoDuplicates(comparison.componentChanges.removed)
        /\ report1 = report2 =>
              /\ comparison.libraryChanges =
                     [name |-> FALSE, description |-> FALSE, useCases |-> FALSE]
              /\ comparison.componentChanges =
                     [added |-> <<>>, removed |-> <<>>, modified |-> <<>>]

\* a component was added while another one, present in both reports, changed
C15_Witness ==
    /\ utilPc = "compared"
    /\ comparison.componentChanges.added = <<"Modal">>
    /\ comparison.componentChanges.removed = <<>>
    /\ Len(comparison.componentChanges.modified) = 1

(***************************************************************************)
(* Properties of batchAnalysis                                             *)
(***************************************************************************)
\* the names the caller gave are pairwise different
NamesGivenDistinct ==
    \A a, b \in DOMAIN repositories :
        (a # b /\ repositories[a].name # "") => repositories[a].name # repositories[b].name

\* C30: when the caller's names are pairwise different, no two repositories of
\* one call get the same output path, repositories without a name included, and
\* the report of every repository analysed is on disk under its path.
C30_OutputPathsDistinct ==
    NamesGivenDistinct =>
        /\ \A a, b \in DOMAIN outputPaths : a # b => outputPaths[a] # outputPaths[b]
        /\ \A r \in DOMAIN repoTasks :
              repoTasks[r] = "fulfilled" => outputFiles[outputPaths[r]] = r

====
